---------------------------- MODULE Spec2Model ----------------------------
(***************************************************************************)
(* maybe_portal: worlds linked by portals.  The model follows              *)
(* src/src/state/real_view/level.rs (MagicLevel, Level, Portal, Coord,     *)
(* will_see_face), the level constructors in level0.rs, level_loop.rs and   *)
(* level_rooms.rs, and the physics boundary in src/src/engine/physics.      *)
(*                                                                         *)
(* Numbers.  The program computes in f32.  The model computes with exact   *)
(* rationals <<n, d>> (d > 0, lowest terms): every arithmetic operation of *)
(* the source is carried out, but without f32 rounding.                    *)
(* Indices.  Worlds and portal indices are 0-based as in the source; the   *)
(* sequences that hold them are 1-based, so levels[w + 1] is the source's  *)
(* levels[w].                                                              *)
(***************************************************************************)
EXTENDS Integers, Sequences, FiniteSets, TLC

VARIABLES
    level_name,     \* which constructor built (is building) the MagicLevel
    todo,           \* the add_portal calls the constructor still has to make
    pc,             \* "building" | "idle" | "render"
    levels,         \* MagicLevel.levels: Seq of [portals: Seq of Portal]
    collider_set,   \* RapierData.collider_set: Seq of colliders, handle = index
    portals_map,    \* MagicLevel.portals_map: sensor handle -> <<world, idx>>
    me_world,       \* MagicLevel.me_world
    translation,    \* rigid_body_set[me.handle].translation()
    col_events,     \* RapierData.col_events: the queue of collision events
    camera,         \* Test3DState.camera: [eye, target]
    portal_views,   \* MagicLevel.portal_views: Seq of [width, height]
    tick,           \* number of MagicLevel::update calls so far
    touching,       \* narrow phase: the (body collider, sensor) pairs that
                    \* intersected after the latest physics step
    hits,           \* the portals the latest update's start events resolved to
    tick_log,       \* the crossings the latest update applied ("From world ..")
    last_cross,     \* the last crossing applied by an earlier update, or <<>>
    cursor,         \* MagicLevel::render: position of its loop over the portals
    stack,          \* the render_in_portal invocations in progress, outermost
                    \* first
    returned,       \* <<the invocation of render_in_portal that returned last
                    \* in this frame>>, or <<>>
    args,           \* <<the arguments of a function applied on its own>>, or <<>>
    ret,            \* <<what that function returned>>, or <<>>
    textures,       \* ResourceManager.textures: the names of the textures held
    drained,        \* the events the last update received from the queue
    surface_cfg,    \* gpu.surface_cfg: width and height of the output surface
    fresh,          \* the pool entries rendered and not yet composited
    windows,        \* WindowManager.windows: window id -> [states, running, ..]
    control_flow,   \* the event loop's *control_flow
    trace,          \* the GameState methods the last handler called, in order
    created,        \* the number of GameState objects created so far
    peers,          \* Server.peers: remote address -> index of its Peer in conns
    conns,          \* the peers created: Seq of [addr, listening, errs, task, clones]
    lossy,          \* whether the streams of the peers can fail
    needs           \* the textures each world of the constructor asks for, in
                    \* the order the constructor builds the worlds

vars == <<level_name, todo, pc, levels, collider_set, portals_map, me_world,
          translation, col_events, camera, portal_views, tick, touching, hits,
          tick_log, last_cross, cursor, stack, returned, args, ret, textures,
          needs, surface_cfg, drained, fresh, windows, control_flow, trace,
          created, peers, conns,
          lossy>>

----------------------------------------------------------------------------
(* Bounds of the model. *)

\* level_rooms is built for room_cnt in 2..MaxRooms
MaxRooms == 3
\* at most MaxTicks calls of MagicLevel::update are explored
MaxTicks == 3

----------------------------------------------------------------------------
(* Exact rational arithmetic standing for the f32 operations. *)

AbsInt(n) == IF n < 0 THEN -n ELSE n

RECURSIVE Gcd(_, _)
Gcd(a, b) == IF b = 0 THEN a ELSE Gcd(b, a % b)

\* the rational n/d in lowest terms with a positive denominator
Rat(n, d) ==
    LET g == Gcd(AbsInt(n), AbsInt(d))
        s == IF d < 0 THEN -1 ELSE 1
    IN  <<(s * n) \div g, (s * d) \div g>>

I(n) == <<n, 1>>
Zero == I(0)
One == I(1)

RAdd(a, b) == Rat(a[1] * b[2] + b[1] * a[2], a[2] * b[2])
RNeg(a) == <<-a[1], a[2]>>
RSub(a, b) == RAdd(a, RNeg(b))
RMul(a, b) == Rat(a[1] * b[1], a[2] * b[2])
\* a / b, b /= 0
RDiv(a, b) == Rat(a[1] * b[2], a[2] * b[1])
RLt(a, b) == a[1] * b[2] < b[1] * a[2]
RLe(a, b) == a[1] * b[2] <= b[1] * a[2]
RAbs(a) == <<AbsInt(a[1]), a[2]>>
\* f32::signum: 1.0 for +0.0 and positive numbers, -1.0 for negative ones
RSignum(a) == IF a[1] < 0 THEN I(-1) ELSE I(1)

(* nalgebra Vector3<f32> as <<x, y, z>> *)
Vec(x, y, z) == <<x, y, z>>
VecI(x, y, z) == <<I(x), I(y), I(z)>>
VAdd(u, v) == <<RAdd(u[1], v[1]), RAdd(u[2], v[2]), RAdd(u[3], v[3])>>
VSub(u, v) == <<RSub(u[1], v[1]), RSub(u[2], v[2]), RSub(u[3], v[3])>>
VNeg(u) == <<RNeg(u[1]), RNeg(u[2]), RNeg(u[3])>>
VScale(u, k) == <<RMul(u[1], k), RMul(u[2], k), RMul(u[3], k)>>
VAbs(u) == <<RAbs(u[1]), RAbs(u[2]), RAbs(u[3])>>
Dot(u, v) == RAdd(RAdd(RMul(u[1], v[1]), RMul(u[2], v[2])), RMul(u[3], v[3]))
Cross(u, v) ==
    <<RSub(RMul(u[2], v[3]), RMul(u[3], v[2])),
      RSub(RMul(u[3], v[1]), RMul(u[1], v[3])),
      RSub(RMul(u[1], v[2]), RMul(u[2], v[1]))>>

VX == VecI(1, 0, 0)
VY == VecI(0, 1, 0)
VZ == VecI(0, 0, 1)

----------------------------------------------------------------------------
(* Program constants. *)

Z_OFFSET == -15
\* the sensor of a portal of half-size r is a cuboid of half-size r - 0.0625
SensorInset == Rat(1, 16)
\* Object::new: the body's bounding cuboid, ColliderBuilder::cuboid(0.125, 0.125, 1.0)
BodyBoundingHalf == Vec(Rat(1, 8), Rat(1, 8), One)
\* the constructors' me_col, ColliderBuilder::cuboid(0.01, 0.01, 1.0)
MeColHalf == Vec(Rat(1, 100), Rat(1, 100), One)
\* the constructors' RigidBodyBuilder translation(vector![-3.0, 3.0, 1.0])
Spawn == VecI(-3, 3, 1)
\* Test3DState::default: Camera::new(point![-3.0, 0.0, 1.0]), target (1, 0, 0)
InitCamera == [eye |-> VecI(-3, 0, 1), target |-> VX]
\* the size of the surface the PortalViews are created for
SurfaceSize == [width |-> 2, height |-> 2]

\* the sizes a resize can give the surface
SurfaceSizes == [width : {2, 3}, height : {2, 3}]

\* handles of the body's two colliders, in Object::new's insertion order
body_bounding == 1
collider_handle == 2

----------------------------------------------------------------------------
(* The level data model: PortalPos, Portal, Level. *)

PortalPos(world, pos, out_normal, up, width) ==
    [world |-> world, pos |-> pos, out_normal |-> out_normal, up |-> up,
     width |-> width]

\* the source's levels[w].portals[i]
PortalAt(lv, w, i) == lv[w + 1].portals[i + 1]

PortalExists(lv, w, i) ==
    /\ w + 1 \in 1..Len(lv)
    /\ i + 1 \in 1..Len(lv[w + 1].portals)

\* every <<world, idx>> that addresses a portal
PortalIds(lv) ==
    UNION {{<<w, i>> : i \in 0..(Len(lv[w + 1].portals) - 1)} :
           w \in 0..(Len(lv) - 1)}

Connecting(lv, id) == PortalAt(lv, id[1], id[2]).connecting

(* Level::add_portal: insert the sensor cuboid, push the portal with the
   default link (0, 0); returns the new level list, collider set, handle
   and index. *)
Level_add_portal(lv, cs, this, r, scale) ==
    LET v == VScale(VSub(VecI(1, 1, 1), VAbs(this.out_normal)),
                    RSub(r, SensorInset))
        sensor == [half |-> v, pos |-> this.pos, sensor |-> TRUE]
        idx == Len(lv[this.world + 1].portals)
        portal == [this |-> this, connecting |-> <<0, 0>>, scale |-> scale,
                   r |-> r]
    IN  [levels |-> [lv EXCEPT ![this.world + 1].portals = Append(@, portal)],
         collider_set |-> Append(cs, sensor),
         handle |-> Len(cs) + 1,
         idx |-> idx]

\* a plausible slip: the back link stores the second portal's own index
MagicLevel_add_portal_BackLinkIdx2(lv, cs, pm, p1, p2, r1, r2, scale) ==
    LET a == Level_add_portal(lv, cs, p1, r1, scale)
        b == Level_add_portal(a.levels, a.collider_set, p2, r2, RDiv(One, scale))
        l1 == [b.levels EXCEPT
                 ![p1.world + 1].portals[a.idx + 1].connecting = <<p2.world, b.idx>>]
        l2 == [l1 EXCEPT
                 ![p2.world + 1].portals[b.idx + 1].connecting = <<p1.world, b.idx>>]
    IN  [levels |-> l2,
         collider_set |-> b.collider_set,
         portals_map |-> (a.handle :> <<p1.world, a.idx>>)
                         @@ (b.handle :> <<p2.world, b.idx>>) @@ pm]

\* a plausible slip: both portals of a pair get `scale`
MagicLevel_add_portal_SameScale(lv, cs, pm, p1, p2, r1, r2, scale) ==
    LET a == Level_add_portal(lv, cs, p1, r1, scale)
        b == Level_add_portal(a.levels, a.collider_set, p2, r2, scale)
        l1 == [b.levels EXCEPT
                 ![p1.world + 1].portals[a.idx + 1].connecting = <<p2.world, b.idx>>]
        l2 == [l1 EXCEPT
                 ![p2.world + 1].portals[b.idx + 1].connecting = <<p1.world, a.idx>>]
    IN  [levels |-> l2,
         collider_set |-> b.collider_set,
         portals_map |-> (a.handle :> <<p1.world, a.idx>>)
                         @@ (b.handle :> <<p2.world, b.idx>>) @@ pm]

\* a plausible slip: each sensor is registered under the other portal
MagicLevel_add_portal_SwappedHandles(lv, cs, pm, p1, p2, r1, r2, scale) ==
    LET a == Level_add_portal(lv, cs, p1, r1, scale)
        b == Level_add_portal(a.levels, a.collider_set, p2, r2, RDiv(One, scale))
        l1 == [b.levels EXCEPT
                 ![p1.world + 1].portals[a.idx + 1].connecting = <<p2.world, b.idx>>]
        l2 == [l1 EXCEPT
                 ![p2.world + 1].portals[b.idx + 1].connecting = <<p1.world, a.idx>>]
    IN  [levels |-> l2,
         collider_set |-> b.collider_set,
         portals_map |-> (a.handle :> <<p2.world, b.idx>>)
                         @@ (b.handle :> <<p1.world, a.idx>>) @@ pm]

\* a plausible slip: both sensors are registered under the first portal
MagicLevel_add_portal_OneEntry(lv, cs, pm, p1, p2, r1, r2, scale) ==
    LET a == Level_add_portal(lv, cs, p1, r1, scale)
        b == Level_add_portal(a.levels, a.collider_set, p2, r2, RDiv(One, scale))
        l1 == [b.levels EXCEPT
                 ![p1.world + 1].portals[a.idx + 1].connecting = <<p2.world, b.idx>>]
        l2 == [l1 EXCEPT
                 ![p2.world + 1].portals[b.idx + 1].connecting = <<p1.world, a.idx>>]
    IN  [levels |-> l2,
         collider_set |-> b.collider_set,
         portals_map |-> (a.handle :> <<p1.world, a.idx>>)
                         @@ (b.handle :> <<p1.world, a.idx>>) @@ pm]

(* MagicLevel::add_portal: add p1 with `scale` and p2 with 1.0 / scale, link
   them to each other and register both sensors in portals_map. *)
MagicLevel_add_portal(lv, cs, pm, p1, p2, r1, r2, scale) ==
    LET a == Level_add_portal(lv, cs, p1, r1, scale)
        b == Level_add_portal(a.levels, a.collider_set, p2, r2, RDiv(One, scale))
        l1 == [b.levels EXCEPT
                 ![p1.world + 1].portals[a.idx + 1].connecting = <<p2.world, b.idx>>]
        l2 == [l1 EXCEPT
                 ![p2.world + 1].portals[b.idx + 1].connecting = <<p1.world, a.idx>>]
    IN  [levels |-> l2,
         collider_set |-> b.collider_set,
         portals_map |-> (a.handle :> <<p1.world, a.idx>>)
                         @@ (b.handle :> <<p2.world, b.idx>>) @@ pm]

----------------------------------------------------------------------------
(* The constructors: the add_portal calls each makes, in order. *)

Call(p1, p2, r1, r2, scale) ==
    [p1 |-> p1, p2 |-> p2, r1 |-> r1, r2 |-> r2, scale |-> scale]

\* MagicLevel::new: worlds normal_level, fat_tunnel, long_tunnel
NewCalls ==
    << Call(PortalPos(0, VecI(1, 0, 1), VX, VZ, I(1)),
            PortalPos(1, VecI(5, 0, 1 + Z_OFFSET), VNeg(VX), VZ, I(5)),
            I(1), I(5), I(5)),
       Call(PortalPos(0, VecI(-1, 0, 1), VNeg(VX), VZ, I(1)),
            PortalPos(1, VecI(-5, 0, 1 + Z_OFFSET), VX, VZ, I(5)),
            I(1), I(5), I(5)),
       Call(PortalPos(0, VecI(5, 1, 1), VX, VZ, I(1)),
            PortalPos(2, VecI(5, 0, 1 + Z_OFFSET * 2), VNeg(VX), VZ, I(1)),
            I(1), I(1), I(1)),
       Call(PortalPos(0, VecI(3, 1, 1), VNeg(VX), VZ, I(1)),
            PortalPos(1, VecI(-5, 0, 1 + Z_OFFSET * 2), VX, VZ, I(5)),
            I(1), I(1), I(1)) >>

\* MagicLevel::level0: worlds normal_level, fat_tunnel, long_tunnel,
\* long_inside, short_inside
Level0Calls ==
    << Call(PortalPos(0, VecI(1, 0, 1), VX, VZ, I(1)),
            PortalPos(1, VecI(5, 0, 1 + Z_OFFSET), VNeg(VX), VZ, I(5)),
            I(1), I(5), I(5)),
       Call(PortalPos(0, VecI(-1, 0, 1), VNeg(VX), VZ, I(1)),
            PortalPos(1, VecI(-5, 0, 1 + Z_OFFSET), VX, VZ, I(5)),
            I(1), I(5), I(5)),
       Call(PortalPos(0, VecI(5, 1, 1), VX, VZ, I(1)),
            PortalPos(1, VecI(5, 0, 1 + Z_OFFSET * 2), VNeg(VX), VZ, I(1)),
            I(1), I(1), I(1)),
       Call(PortalPos(0, VecI(3, 1, 1), VNeg(VX), VZ, I(1)),
            PortalPos(2, VecI(-5, 0, 1 + Z_OFFSET * 2), VX, VZ, I(5)),
            I(1), I(1), I(1)),
       Call(PortalPos(0, VecI(-1, 4, 1), VNeg(VX), VZ, I(1)),
            PortalPos(3, VecI(-5, 0, 1 + Z_OFFSET * 10), VX, VZ, I(5)),
            I(1), I(1), I(1)),
       Call(PortalPos(0, VecI(1, 4, 1), VX, VZ, I(1)),
            PortalPos(3, VecI(5, 0, 1 + Z_OFFSET * 10), VNeg(VX), VZ, I(5)),
            I(1), I(1), I(1)),
       Call(PortalPos(0, VecI(-5, 7, 1), VNeg(VX), VZ, I(1)),
            PortalPos(4, VecI(-1, 0, 1 + Z_OFFSET * 15), VX, VZ, I(5)),
            I(1), I(1), I(1)),
       Call(PortalPos(0, VecI(5, 7, 1), VX, VZ, I(1)),
            PortalPos(4, VecI(1, 0, 1 + Z_OFFSET * 15), VNeg(VX), VZ, I(5)),
            I(1), I(1), I(1)) >>

\* MagicLevel::level_loop: one world whose two portals link to each other
LevelLoopCalls ==
    << Call(PortalPos(0, VecI(5, 0, 1), VNeg(VX), VZ, I(10)),
            PortalPos(0, VecI(-5, 0, 1), VX, VZ, I(10)),
            I(10), I(10), I(1)) >>

\* MagicLevel::level_rooms(room_cnt): room i links to room (i + 1) % room_cnt
LevelRoomsCalls(room_cnt) ==
    [i \in 1..room_cnt |->
        Call(PortalPos(i - 1, VecI(0, -5, 1 + 20 * (i - 1)), VY, VZ, I(10)),
             PortalPos(i % room_cnt,
                       VecI(-5, 0, 1 + 20 * (i % room_cnt)), VX, VZ, I(10)),
             I(10), I(10), I(1))]

\* the constructors: name, number of worlds, add_portal calls, pool size
Constructors ==
    { [name |-> "new", worlds |-> 3, calls |-> NewCalls, pool |-> 5],
      [name |-> "level0", worlds |-> 5, calls |-> Level0Calls, pool |-> 5],
      [name |-> "level_loop", worlds |-> 1, calls |-> LevelLoopCalls,
       pool |-> 10] }
    \cup { [name |-> "level_rooms", worlds |-> n, calls |-> LevelRoomsCalls(n),
            pool |-> 5] : n \in 2..MaxRooms }

\* level_rooms: the texture names `colors` holds before it is shuffled
Colors == <<"bf", "gf", "pf", "rf", "af", "yf", "gray_f", "pink_f", "black_f">>

TextureNames == {Colors[k] : k \in DOMAIN Colors}

\* load_texture: the textures the program loads at start
LoadedTextures == {"bf", "gf", "pf", "rf"}

\* the orders colors.shuffle can leave the first n names in
Shuffles(n) ==
    {f \in [1..n -> TextureNames] : \A i, j \in 1..n : f[i] = f[j] => i = j}

(* The textures the world constructors look up with
   res.textures.get(..).ok_or(..)?, world by world in the order the
   constructor pushes the worlds; level_rooms: one shuffled colour a room. *)
WorldNeeds(c, shuffle) ==
    CASE c.name = "new" ->
            <<{"gf", "bf", "pf"}, {"gf", "bf", "pf"}, {"gf", "bf", "pf"}>>
      [] c.name = "level0" ->
            <<{"gf", "bf", "pf"}, {"gf", "bf", "pf"}, {"gf", "bf"},
              {"gf", "bf"}, {"gf", "bf"}>>
      [] c.name = "level_loop" -> <<{"gf"}>>
      [] c.name = "level_rooms" -> [k \in 1..c.worlds |-> {shuffle[k]}]

\* Object::new: the body's colliders, inserted before any sensor
BodyColliders ==
    << [half |-> BodyBoundingHalf, pos |-> VecI(0, 0, 0), sensor |-> FALSE],
       [half |-> MeColHalf, pos |-> VecI(0, 0, 0), sensor |-> FALSE] >>

\* PortalView::new: targets of the size of the surface
PortalView_new(cfg) == [width |-> cfg.width, height |-> cfg.height]

(* The constructor up to `let mut this = Self { ... }`: worlds without
   portals, the body at its spawn point in world 0, an empty portals_map and
   the pool of portal views. *)
InitLevel ==
    \E c \in Constructors :
        /\ level_name = c.name
        /\ todo = c.calls
        /\ pc = "building"
        /\ levels = [w \in 1..c.worlds |-> [portals |-> <<>>]]
        /\ collider_set = BodyColliders
        /\ portals_map = <<>>
        /\ me_world = 0
        /\ translation = Spawn
        /\ col_events = <<>>
        /\ camera = InitCamera
        /\ portal_views = [k \in 1..c.pool |-> PortalView_new(SurfaceSize)]
        /\ surface_cfg = SurfaceSize
        /\ drained = <<>>
        /\ lossy = FALSE
        /\ conns = <<>>
        /\ peers = <<>>
        /\ created = 0
        /\ trace = <<>>
        /\ control_flow = "Poll"
        /\ windows = <<>>
        /\ fresh = {}
        /\ tick = 0
        /\ touching = {}
        /\ hits = <<>>
        /\ tick_log = <<>>
        /\ last_cross = <<>>
        /\ cursor = 1
        /\ stack = <<>>
        /\ returned = <<>>
        /\ textures = LoadedTextures
        /\ needs = WorldNeeds(c, Colors)

Init ==
    /\ InitLevel
    /\ args = <<>>
    /\ ret = <<>>

(* One this.add_portal(...) call of the constructor. *)
AddPortal ==
    /\ pc = "building"
    /\ todo /= <<>>
    /\ LET c == Head(todo)
           res == MagicLevel_add_portal(levels, collider_set, portals_map,
                                        c.p1, c.p2, c.r1, c.r2, c.scale)
       IN  /\ levels' = res.levels
           /\ collider_set' = res.collider_set
           /\ portals_map' = res.portals_map
    /\ todo' = Tail(todo)
    /\ UNCHANGED <<level_name, pc, me_world, translation, col_events, camera,
                   portal_views, tick, touching, hits, tick_log, last_cross,
                   cursor, stack, returned,
                   args, ret,
                   textures, needs, surface_cfg,
                   drained,
                   fresh,
                   windows,
                   control_flow,
                   trace,
                   created,
                   peers,
                   conns,
                   lossy>>

(* The constructor returns Ok(this). *)
Built ==
    /\ pc = "building"
    /\ todo = <<>>
    /\ pc' = "idle"
    /\ UNCHANGED <<level_name, todo, levels, collider_set, portals_map,
                   me_world, translation, col_events, camera, portal_views,
                   tick, touching, hits, tick_log, last_cross, cursor, stack,
                   returned,
                   args, ret,
                   textures, needs, surface_cfg,
                   drained,
                   fresh,
                   windows,
                   control_flow,
                   trace,
                   created,
                   peers,
                   conns,
                   lossy>>

----------------------------------------------------------------------------
(* The first half of a constructor: the worlds are built one after another
   into the local `levels`; every texture lookup is
   res.textures.get(name).ok_or(anyhow!("NO TEXTURE"))? and every world is
   pushed with `?`, so the first world that misses a texture ends the
   constructor with its error and the locals are dropped.  The MagicLevel
   value exists from `let mut this = Self { .. }` on. *)

\* what the resource manager may hold: every name, what load_texture loads,
\* that less one texture, nothing
Resources ==
    {TextureNames, LoadedTextures}
        \cup {LoadedTextures \ {t} : t \in {"gf", "bf", "pf"}} \cup {{}}

\* the constructor is entered: `let mut levels = vec![]`, RapierData::new()
InitLoad ==
    \E c \in Constructors :
        /\ level_name = c.name
        /\ todo = c.calls
        /\ pc = "loading"
        /\ levels = <<>>
        /\ collider_set = <<>>
        /\ portals_map = <<>>
        /\ me_world = 0
        /\ translation = Spawn
        /\ col_events = <<>>
        /\ camera = InitCamera
        /\ portal_views = <<>>
        /\ surface_cfg = SurfaceSize
        /\ drained = <<>>
        /\ lossy = FALSE
        /\ conns = <<>>
        /\ peers = <<>>
        /\ created = 0
        /\ trace = <<>>
        /\ control_flow = "Poll"
        /\ windows = <<>>
        /\ fresh = {}
        /\ tick = 0
        /\ touching = {}
        /\ hits = <<>>
        /\ tick_log = <<>>
        /\ last_cross = <<>>
        /\ cursor = 1
        /\ stack = <<>>
        /\ returned = <<>>
        /\ textures \in Resources
        /\ \E shuffle \in (IF c.name = "level_rooms"
                             THEN Shuffles(c.worlds) ELSE {Colors}) :
               needs = WorldNeeds(c, shuffle)
        /\ args = <<>>
        /\ ret = <<>>

\* textures.get(name).ok_or(..)? succeeds for every texture of a world
WorldLoads_Lenient(tex, need) == TRUE

WorldLoads(tex, need) == need \subseteq tex

\* the number of portal views the constructor creates
PoolOf(name) == (CHOOSE c \in Constructors : c.name = name).pool

(* levels.push(world(..)?) where the world finds its textures *)
LoadWorld ==
    /\ pc = "loading"
    /\ Len(levels) < Len(needs)
    /\ WorldLoads(textures, needs[Len(levels) + 1])
    /\ levels' = Append(levels, [portals |-> <<>>])
    /\ UNCHANGED <<level_name, todo, pc, collider_set, portals_map, me_world,
                   translation, col_events, camera, portal_views, tick,
                   touching, hits, tick_log, last_cross, cursor, stack,
                   returned, args, ret, textures, needs, surface_cfg,
                   drained,
                   fresh,
                   windows,
                   control_flow,
                   trace,
                   created,
                   peers,
                   conns,
                   lossy>>

(* levels.push(world(..)?) where a lookup yields None: `?` returns the error
   and drops `levels` and `p` *)
LoadFail ==
    /\ pc = "loading"
    /\ Len(levels) < Len(needs)
    /\ ~WorldLoads(textures, needs[Len(levels) + 1])
    /\ pc' = "failed"
    /\ levels' = <<>>
    /\ UNCHANGED <<level_name, todo, collider_set, portals_map, me_world,
                   translation, col_events, camera, portal_views, tick,
                   touching, hits, tick_log, last_cross, cursor, stack,
                   returned, args, ret, textures, needs, surface_cfg,
                   drained,
                   fresh,
                   windows,
                   control_flow,
                   trace,
                   created,
                   peers,
                   conns,
                   lossy>>

(* Object::new and `let mut this = Self { .. }`: the body and the pool *)
Assemble ==
    /\ pc = "loading"
    /\ Len(levels) = Len(needs)
    /\ pc' = "building"
    /\ collider_set' = BodyColliders
    /\ portal_views' =
          [k \in 1..PoolOf(level_name) |-> PortalView_new(surface_cfg)]
    /\ UNCHANGED <<level_name, todo, levels, portals_map, me_world,
                   translation, col_events, camera, tick, touching, hits,
                   tick_log, last_cross, cursor, stack, returned, args, ret,
                   textures, needs, surface_cfg,
                   drained,
                   fresh,
                   windows,
                   control_flow,
                   trace,
                   created,
                   peers,
                   conns,
                   lossy>>

NextLoad ==
    \/ LoadWorld
    \/ LoadFail
    \/ Assemble
    \/ AddPortal
    \/ Built

SpecLoad == InitLoad /\ [][NextLoad]_vars

----------------------------------------------------------------------------
(* Coord: a pose in a portal's basis (forward, up, right). *)

\* up x out_normal, the portal's right vector
PortalRight(this) == Cross(this.up, this.out_normal)

(* Coord::from_camera_portal: the crossing projection; the displacement is
   scaled by portal.scale before it is projected, the direction is not. *)
from_camera_portal(cam, portal) ==
    LET dis == VScale(VSub(cam.eye, portal.this.pos), portal.scale)
    IN  [forward |-> Dot(portal.this.out_normal, dis),
         up |-> Dot(portal.this.up, dis),
         right |-> Dot(PortalRight(portal.this), dis),
         target_forward |-> Dot(portal.this.out_normal, cam.target),
         target_up |-> Dot(portal.this.up, cam.target),
         target_right |-> Dot(PortalRight(portal.this), cam.target)]

\* the direction both reconstructions compute
CoordTarget(coord, this) ==
    VAdd(VSub(VScale(this.up, coord.target_up),
              VScale(this.out_normal, coord.target_forward)),
         VScale(Cross(this.up, VNeg(this.out_normal)), coord.target_right))

(* Coord::change_camera_without_forward: the pose on the linked portal's
   plane (no forward offset). *)
change_camera_without_forward(coord, this) ==
    [eye |-> VAdd(VSub(VScale(this.up, coord.up),
                       VScale(PortalRight(this), coord.right)),
                  this.pos),
     target |-> CoordTarget(coord, this)]

\* a plausible slip: beyond the width the whole |right| is carried over
from_camera_portal_for_view_WholeExcess(cam, portal) ==
    LET dis == VSub(cam.eye, portal.this.pos)
        right == Dot(PortalRight(portal.this), dis)
    IN  [forward |-> Dot(portal.this.out_normal, dis),
         up |-> RMul(Dot(portal.this.up, dis), portal.scale),
         right |->
            IF RLe(portal.this.width, RAbs(right))
              THEN RMul(RSignum(right),
                        RAdd(RMul(portal.this.width, portal.scale),
                             RAbs(right)))
              ELSE RMul(right, portal.scale),
         target_forward |-> Dot(portal.this.out_normal, cam.target),
         target_up |-> Dot(portal.this.up, cam.target),
         target_right |-> Dot(PortalRight(portal.this), cam.target)]

\* a plausible slip: within the width the lateral offset is not scaled
from_camera_portal_for_view_UnscaledInside(cam, portal) ==
    LET dis == VSub(cam.eye, portal.this.pos)
        right == Dot(PortalRight(portal.this), dis)
    IN  [forward |-> Dot(portal.this.out_normal, dis),
         up |-> RMul(Dot(portal.this.up, dis), portal.scale),
         right |->
            IF RLe(portal.this.width, RAbs(right))
              THEN RMul(RSignum(right),
                        RAdd(RMul(portal.this.width, portal.scale),
                             RSub(RAbs(right), portal.this.width)))
              ELSE right,
         target_forward |-> Dot(portal.this.out_normal, cam.target),
         target_up |-> Dot(portal.this.up, cam.target),
         target_right |-> Dot(PortalRight(portal.this), cam.target)]

(* Coord::from_camera_portal_for_view: the projection for a sub-render; only
   up and right are scaled, and right is scaled only up to the portal's
   width (beyond it the excess is carried over unscaled). *)
from_camera_portal_for_view(cam, portal) ==
    LET dis == VSub(cam.eye, portal.this.pos)
        right == Dot(PortalRight(portal.this), dis)
    IN  [forward |-> Dot(portal.this.out_normal, dis),
         up |-> RMul(Dot(portal.this.up, dis), portal.scale),
         right |->
            IF RLe(portal.this.width, RAbs(right))
              THEN RMul(RSignum(right),
                        RAdd(RMul(portal.this.width, portal.scale),
                             RSub(RAbs(right), portal.this.width)))
              ELSE RMul(right, portal.scale),
         target_forward |-> Dot(portal.this.out_normal, cam.target),
         target_up |-> Dot(portal.this.up, cam.target),
         target_right |-> Dot(PortalRight(portal.this), cam.target)]

(* Coord::change_camera_for_portal: the pose behind the linked portal, the
   forward offset mirrored. *)
change_camera_for_portal(coord, this) ==
    [eye |-> VAdd(VSub(VSub(VScale(this.up, coord.up),
                            VScale(this.out_normal, coord.forward)),
                       VScale(PortalRight(this), coord.right)),
                  this.pos),
     target |-> CoordTarget(coord, this)]

----------------------------------------------------------------------------
(* The physics boundary: RapierData::step and the events it reports. *)

\* the distance the body is pushed out of the linked portal's plane: 0.02
CrossEpsilon == Rat(1, 50)

\* two axis-aligned cuboids intersect
Overlap(half1, pos1, half2, pos2) ==
    \A k \in 1..3 :
        RLe(RAbs(RSub(pos1[k], pos2[k])), RAdd(half1[k], half2[k]))

\* the handles of the portal sensors
Sensors(cs) == {h \in 1..Len(cs) : cs[h].sensor}

\* body collider b, attached to the body at `at`, touches sensor h
Touches(cs, b, at, h) == Overlap(cs[b].half, at, cs[h].half, cs[h].pos)

CollisionEvent(c1, c2, started) ==
    [collider1 |-> c1, collider2 |-> c2, started |-> started]

\* the (body collider, sensor) pairs that intersect with the body at `at`
TouchingAt(cs, at) ==
    {bh \in {body_bounding, collider_handle} \X Sensors(cs) :
        Touches(cs, bh[1], at, bh[2])}

(* The events one physics step reports when it leaves the body at `to`:
   Started for every pair that intersects now and did not after the previous
   step, Stopped for every pair that did and no longer does. *)
StepEvents(cs, was, to) ==
    {[pair |-> bh, started |-> TRUE] : bh \in TouchingAt(cs, to) \ was}
    \cup {[pair |-> bh, started |-> FALSE] : bh \in was \ TouchingAt(cs, to)}

(* The queue after the step: every event once; the Started events in any
   order, the two handles of each in either order.  The Stopped events
   stand first: the event loop skips them wherever they stand. *)
EventQueues(E) ==
    LET S == {e \in E : e.started}
        n == Cardinality(S)
        orders == {f \in [1..n -> S] : \A i, j \in 1..n : f[i] = f[j] => i = j}
        RECURSIVE Stopped(_)
        Stopped(T) ==
            IF T = {}
              THEN <<>>
              ELSE LET e == CHOOSE x \in T : TRUE
                   IN  <<CollisionEvent(e.pair[1], e.pair[2], FALSE)>>
                       \o Stopped(T \ {e})
    IN  { Stopped(E \ S) \o
          [k \in 1..n |->
             IF flip[k]
               THEN CollisionEvent(f[k].pair[2], f[k].pair[1], TRUE)
               ELSE CollisionEvent(f[k].pair[1], f[k].pair[2], TRUE)]
          : <<f, flip>> \in orders \X [1..n -> BOOLEAN] }

(* Where one physics step can leave the body: where it is, at its spawn
   point, or in the plane of a portal whose sensor it touches there; z is
   locked (no gravity, calc_vel zeroes the z velocity). *)
StepPositions(lv, cs, tr) ==
    {tr, Vec(Spawn[1], Spawn[2], tr[3])}
    \cup { Vec(cs[h].pos[1], cs[h].pos[2], tr[3]) :
           h \in {g \in Sensors(cs) :
                    Touches(cs, body_bounding,
                            Vec(cs[g].pos[1], cs[g].pos[2], tr[3]), g)} }

----------------------------------------------------------------------------
(* MagicLevel::update *)

\* a plausible slip: the z half-extent is rescaled with x and y
ApplyCrossing_ScaleZ(st, lv, id) ==
    LET portal == PortalAt(lv, id[1], id[2])
        camera_view == from_camera_portal(st.camera, portal)
        connecting ==
            PortalAt(lv, portal.connecting[1], portal.connecting[2]).this
        cam1 == change_camera_without_forward(camera_view, connecting)
        eye1 == Vec(cam1.eye[1], cam1.eye[2], connecting.pos[3])
        eye2 == VAdd(eye1, VScale(connecting.out_normal, CrossEpsilon))
        half == st.collider_set[body_bounding].half
        half2 == VScale(half, portal.scale)
    IN  [st EXCEPT
           !.camera = [eye |-> eye2, target |-> cam1.target],
           !.translation = eye2,
           !.collider_set[body_bounding].half = half2,
           !.me_world = connecting.world,
           !.log = Append(@, [portal |-> id,
                              from_world |-> st.me_world,
                              to_world |-> connecting.world,
                              half_before |-> half,
                              half_after |-> half2,
                              before |-> st.camera.eye,
                              after |-> eye2])]

\* a plausible slip: the height of the reconstructed position is kept
ApplyCrossing_KeepHeight(st, lv, id) ==
    LET portal == PortalAt(lv, id[1], id[2])
        camera_view == from_camera_portal(st.camera, portal)
        connecting ==
            PortalAt(lv, portal.connecting[1], portal.connecting[2]).this
        cam1 == change_camera_without_forward(camera_view, connecting)
        eye2 == VAdd(cam1.eye, VScale(connecting.out_normal, CrossEpsilon))
        half == st.collider_set[body_bounding].half
        half2 == Vec(RMul(half[1], portal.scale), RMul(half[2], portal.scale),
                     half[3])
    IN  [st EXCEPT
           !.camera = [eye |-> eye2, target |-> cam1.target],
           !.translation = eye2,
           !.collider_set[body_bounding].half = half2,
           !.me_world = connecting.world,
           !.log = Append(@, [portal |-> id,
                              from_world |-> st.me_world,
                              to_world |-> connecting.world,
                              half_before |-> half,
                              half_after |-> half2,
                              before |-> st.camera.eye,
                              after |-> eye2])]

\* a plausible slip: me_world becomes the world of the portal, not of its link
ApplyCrossing_OwnWorld(st, lv, id) ==
    LET portal == PortalAt(lv, id[1], id[2])
        camera_view == from_camera_portal(st.camera, portal)
        connecting ==
            PortalAt(lv, portal.connecting[1], portal.connecting[2]).this
        cam1 == change_camera_without_forward(camera_view, connecting)
        eye1 == Vec(cam1.eye[1], cam1.eye[2], connecting.pos[3])
        eye2 == VAdd(eye1, VScale(connecting.out_normal, CrossEpsilon))
        half == st.collider_set[body_bounding].half
        half2 == Vec(RMul(half[1], portal.scale), RMul(half[2], portal.scale),
                     half[3])
    IN  [st EXCEPT
           !.camera = [eye |-> eye2, target |-> cam1.target],
           !.translation = eye2,
           !.collider_set[body_bounding].half = half2,
           !.me_world = portal.this.world,
           !.log = Append(@, [portal |-> id,
                              from_world |-> st.me_world,
                              to_world |-> portal.this.world,
                              half_before |-> half,
                              half_after |-> half2,
                              before |-> st.camera.eye,
                              after |-> eye2])]

\* lines 492-508: the crossing through portal `id`
ApplyCrossing(st, lv, id) ==
    LET portal == PortalAt(lv, id[1], id[2])
        camera_view == from_camera_portal(st.camera, portal)
        connecting ==
            PortalAt(lv, portal.connecting[1], portal.connecting[2]).this
        cam1 == change_camera_without_forward(camera_view, connecting)
        eye1 == Vec(cam1.eye[1], cam1.eye[2], connecting.pos[3])
        eye2 == VAdd(eye1, VScale(connecting.out_normal, CrossEpsilon))
        half == st.collider_set[body_bounding].half
        half2 == Vec(RMul(half[1], portal.scale), RMul(half[2], portal.scale),
                     half[3])
    IN  [st EXCEPT
           !.camera = [eye |-> eye2, target |-> cam1.target],
           !.translation = eye2,
           !.collider_set[body_bounding].half = half2,
           !.me_world = connecting.world,
           !.log = Append(@, [portal |-> id,
                              from_world |-> st.me_world,
                              to_world |-> connecting.world,
                              half_before |-> half,
                              half_after |-> half2,
                              before |-> st.camera.eye,
                              after |-> eye2])]

\* line 483-487: the handle the event is looked up by
PortalHandle(event) ==
    IF event.collider1 = collider_handle
      THEN event.collider2
      ELSE event.collider1

\* the crossing just logged, with the event the loop applied it for
Caused(st, event) ==
    [st EXCEPT !.log[Len(st.log)] = @ @@ [event |-> event]]

\* a plausible slip: no per-tick deduplication
HandleEvent_NoDedup(st, lv, pm, event) ==
    IF ~event.started
      THEN st
      ELSE IF PortalHandle(event) \in DOMAIN pm
             THEN Caused(ApplyCrossing(
                      [st EXCEPT !.hits = Append(@, pm[PortalHandle(event)])],
                      lv, pm[PortalHandle(event)]), event)
             ELSE st

\* a plausible slip: stop events are not skipped
HandleEvent_StopsToo(st, lv, pm, event) ==
    IF PortalHandle(event) \in DOMAIN pm
      THEN LET id == pm[PortalHandle(event)]
               st1 == [st EXCEPT !.hits = Append(@, id)]
           IN  IF id \in st.coled
                 THEN st1
                 ELSE Caused(ApplyCrossing([st1 EXCEPT !.coled = @ \cup {id}],
                                           lv, id), event)
      ELSE st

(* lines 479-509: one iteration of the event loop.  hits records every
   successful lookup in portals_map (line 488), coled is the loop's set of
   the portals already crossed in this tick. *)
HandleEvent(st, lv, pm, event) ==
    IF ~event.started
      THEN st
      ELSE IF PortalHandle(event) \in DOMAIN pm
             THEN LET id == pm[PortalHandle(event)]
                      st1 == [st EXCEPT !.hits = Append(@, id)]
                  IN  IF id \in st.coled
                        THEN st1
                        ELSE Caused(
                                 ApplyCrossing(
                                     [st1 EXCEPT !.coled = @ \cup {id}],
                                     lv, id), event)
             ELSE st

\* a plausible slip: the loop takes one event and leaves the rest queued
EventLoop_FirstOnly(st, lv, pm, events) ==
    IF events = <<>>
      THEN [st EXCEPT !.queue = events]
      ELSE [HandleEvent(st, lv, pm, Head(events)) EXCEPT
              !.queue = Tail(events)]

(* lines 478-510: the loop takes the events from the queue one by one until
   try_recv finds it empty; queue is what it leaves there. *)
RECURSIVE EventLoop(_, _, _, _)
EventLoop(st, lv, pm, events) ==
    IF events = <<>>
      THEN [st EXCEPT !.queue = events]
      ELSE EventLoop(HandleEvent(st, lv, pm, Head(events)), lv, pm,
                     Tail(events))

(* MagicLevel::update: the physics step (which discards what is left in the
   queue, moves the body and reports this step's events), the event loop
   over the drained queue, and the camera following the body. *)
Update ==
    /\ pc = "idle"
    /\ tick < MaxTicks
    /\ \E to \in StepPositions(levels, collider_set, translation) :
       \E events \in EventQueues(StepEvents(collider_set, touching, to)) :
       \E st \in {EventLoop([camera |-> camera, translation |-> to,
                             collider_set |-> collider_set,
                             me_world |-> me_world, coled |-> {},
                             log |-> <<>>, hits |-> <<>>, queue |-> events],
                            levels, portals_map, events)} :
          /\ touching' = TouchingAt(collider_set, to)
          /\ col_events' = st.queue
          /\ drained' = SubSeq(events, 1, Len(events) - Len(st.queue))
          /\ collider_set' = st.collider_set
          /\ translation' = st.translation
          /\ me_world' = st.me_world
          /\ camera' = [st.camera EXCEPT !.eye = st.translation]
          /\ hits' = st.hits
          /\ tick_log' = st.log
          /\ last_cross' = IF tick_log /= <<>>
                             THEN <<tick_log[Len(tick_log)]>>
                             ELSE last_cross
    /\ tick' = tick + 1
    /\ UNCHANGED <<level_name, todo, pc, levels, portals_map, portal_views,
                   cursor, stack, returned,
                   args, ret,
                   textures, needs, surface_cfg,
                   fresh,
                   windows,
                   control_flow,
                   trace,
                   created,
                   peers,
                   conns,
                   lossy>>

----------------------------------------------------------------------------
(* MagicLevel::render and MagicLevel::render_in_portal.  One frame is a
   sequence of steps; will_see_face is an input of each step: the model
   explores both of its outcomes for every portal. *)

\* the portals in the order of the loops `for world .. for portal_idx ..`
RECURSIVE PortalOrderFrom(_, _)
PortalOrderFrom(lv, w) ==
    IF w >= Len(lv)
      THEN <<>>
      ELSE [i \in 1..Len(lv[w + 1].portals) |-> <<w, i - 1>>]
           \o PortalOrderFrom(lv, w + 1)

PortalOrder(lv) == PortalOrderFrom(lv, 0)

\* the portals further than this from the camera's height are not rendered
ZCullDistance == I(5)

\* a plausible slip: no portal is too far above or below the camera
ZCull_Never(this, cam) == FALSE

\* lines 569 and 638: (this_portal.this.pos.z - camera.eye.z).abs() > 5.0
ZCull(this, cam) ==
    RLt(ZCullDistance, RAbs(RSub(this.pos[3], cam.eye[3])))

(* lines 577-579: the portal lies between the camera and the portal the view
   looks out of.  The sign of the dot product of the normalised vectors is
   the sign of the dot product of the vectors. *)
BehindEntry(this, entry, cam) ==
    RLt(Dot(VSub(this.pos, cam.eye), VSub(this.pos, entry.pos)), Zero)

\* lines 585-588 and 643-646: the camera of the sub-render through a portal
PortalCamera(lv, cam, this_portal) ==
    change_camera_for_portal(
        from_camera_portal_for_view(cam, this_portal),
        PortalAt(lv, this_portal.connecting[1],
                 this_portal.connecting[2]).this)

\* a plausible slip: the depth check lets one more level through
DepthExhausted_OffByOne(rec_dep, pvs) == rec_dep + 1 > Len(pvs)

\* line 559: next dep will overflow
DepthExhausted(rec_dep, pvs) == rec_dep + 1 >= Len(pvs)

\* a plausible slip: the depth check comes first, nothing is drawn at the bound
EnterPortal_GuardFirst(pvs, id, rec_dep, cam) ==
    [world |-> id[1], idx |-> id[2], rec_dep |-> rec_dep, camera |-> cam,
     cursor |-> 1,
     passes |-> IF rec_dep + 1 >= Len(pvs)
                  THEN <<>>
                  ELSE << [pass |-> "aperture", view |-> rec_dep, portal |-> id],
                          [pass |-> "scene", view |-> rec_dep,
                           world |-> id[1]] >>,
     recursed |-> FALSE, composited |-> FALSE]

\* a plausible slip: every invocation renders into the first view of the pool
EnterPortal_FirstView(pvs, id, rec_dep, cam) ==
    [world |-> id[1], idx |-> id[2], rec_dep |-> rec_dep, camera |-> cam,
     cursor |-> 1,
     passes |-> << [pass |-> "aperture", view |-> 0, portal |-> id],
                   [pass |-> "scene", view |-> 0, world |-> id[1]] >>,
     recursed |-> FALSE, composited |-> FALSE]

(* lines 522-555: an invocation of render_in_portal after its two passes,
   the aperture pre-pass of portal `id` into portal_views[rec_dep].pd and the
   scene pass of world id[1] into portal_views[rec_dep]. *)
EnterPortal(pvs, id, rec_dep, cam) ==
    [world |-> id[1], idx |-> id[2], rec_dep |-> rec_dep, camera |-> cam,
     cursor |-> 1,
     passes |-> << [pass |-> "aperture", view |-> rec_dep, portal |-> id],
                   [pass |-> "scene", view |-> rec_dep, world |-> id[1]] >>,
     recursed |-> FALSE, composited |-> FALSE]

\* the loops' next portal
NextCursor(k) == k + 1

\* the pool entries whose colour output the passes of an invocation clear
Cleared(frame) ==
    {frame.passes[k].view : k \in {n \in DOMAIN frame.passes :
                                      frame.passes[n].pass = "scene"}}

(* lines 601 and 660: the pool entry whose color_bind the compositing pass
   samples after the invocation at rec_dep returned; the pass draws onto the
   caller's target with LoadOp::Load. *)
CompositeSource(rec_dep) == rec_dep

Top == stack[Len(stack)]

\* line 617: the first view of the pool is not of the size of the surface
PoolStale_WidthOnly(pvs, cfg) == pvs[1].width /= cfg.width

PoolStale(pvs, cfg) ==
    pvs[1].width /= cfg.width \/ pvs[1].height /= cfg.height

(* window.rs, WindowEvent::Resized: gpu.resize(width, height) for a size with
   width > 1 and height > 1; the event loop handles it between two frames. *)
Resized ==
    /\ pc = "idle"
    /\ \E size \in SurfaceSizes :
          /\ size /= surface_cfg
          /\ surface_cfg' = size
    /\ UNCHANGED <<level_name, todo, pc, levels, collider_set, portals_map,
                   me_world, translation, col_events, camera, portal_views,
                   tick, touching, hits, tick_log, last_cross, cursor, stack,
                   returned, args, ret, textures, needs,
                   drained,
                   fresh,
                   windows,
                   control_flow,
                   trace,
                   created,
                   peers,
                   conns,
                   lossy>>

(* lines 616-629: the pool is recreated when the surface size changed, the
   screen pass draws levels[me_world]; the loop over the portals starts. *)
RenderBegin ==
    /\ pc = "idle"
    /\ pc' = "render"
    /\ portal_views' =
          IF PoolStale(portal_views, surface_cfg)
            THEN [k \in DOMAIN portal_views |-> PortalView_new(surface_cfg)]
            ELSE portal_views
    /\ cursor' = 1
    /\ stack' = <<>>
    /\ returned' = <<>>
    /\ fresh' = {}
    /\ UNCHANGED <<level_name, todo, levels, collider_set, portals_map,
                   me_world, translation, col_events, camera, tick, touching,
                   hits, tick_log, last_cross,
                   args, ret,
                   textures, needs, surface_cfg,
                   drained,
                   windows,
                   control_flow,
                   trace,
                   created,
                   peers,
                   conns,
                   lossy>>

\* lines 635-640: render's loop skips a portal
RenderSkip ==
    /\ pc = "render"
    /\ stack = <<>>
    /\ cursor <= Len(PortalOrder(levels))
    /\ LET id == PortalOrder(levels)[cursor]
           this_portal == PortalAt(levels, id[1], id[2])
       IN  \E see \in BOOLEAN : ~see \/ ZCull(this_portal.this, camera)
    /\ cursor' = NextCursor(cursor)
    /\ UNCHANGED <<level_name, todo, pc, levels, collider_set, portals_map,
                   me_world, translation, col_events, camera, portal_views,
                   tick, touching, hits, tick_log, last_cross, stack,
                   returned,
                   args, ret,
                   textures, needs, surface_cfg,
                   drained,
                   fresh,
                   windows,
                   control_flow,
                   trace,
                   created,
                   peers,
                   conns,
                   lossy>>

\* lines 643-649: render looks through a portal with rec_dep 0
RenderPortal ==
    /\ pc = "render"
    /\ stack = <<>>
    /\ cursor <= Len(PortalOrder(levels))
    /\ LET id == PortalOrder(levels)[cursor]
           this_portal == PortalAt(levels, id[1], id[2])
       IN  /\ \E see \in BOOLEAN : see /\ ~ZCull(this_portal.this, camera)
           /\ stack' = <<EnterPortal(portal_views, this_portal.connecting, 0,
                                     PortalCamera(levels, camera,
                                                  this_portal))>>
           /\ fresh' = fresh \cup Cleared(stack'[1])
    /\ UNCHANGED <<level_name, todo, pc, levels, collider_set, portals_map,
                   me_world, translation, col_events, camera, portal_views,
                   tick, touching, hits, tick_log, last_cross, cursor,
                   returned,
                   args, ret,
                   textures, needs, surface_cfg,
                   drained,
                   windows,
                   control_flow,
                   trace,
                   created,
                   peers,
                   conns,
                   lossy>>

\* a plausible slip: the caller looks through the same portal again
Return_SamePortalAgain ==
    /\ returned' = <<Top>>
    /\ fresh' = fresh \ {CompositeSource(Top.rec_dep)}
    /\ IF Len(stack) = 1
         THEN /\ stack' = <<>>
              /\ cursor' = cursor
         ELSE /\ stack' = [SubSeq(stack, 1, Len(stack) - 1)
                             EXCEPT ![Len(stack) - 1].composited = TRUE]
              /\ cursor' = cursor
    /\ UNCHANGED <<level_name, todo, pc, levels, collider_set, portals_map,
                   me_world, translation, col_events, camera, portal_views,
                   tick, touching, hits, tick_log, last_cross,
                   args, ret,
                   textures, needs, surface_cfg,
                   drained,
                   windows,
                   control_flow,
                   trace,
                   created,
                   peers,
                   conns,
                   lossy>>

(* The return of the innermost invocation: its caller composites the view
   it rendered (lines 593-606, or 651-663 onto the screen) and moves on. *)
Return ==
    /\ returned' = <<Top>>
    /\ fresh' = fresh \ {CompositeSource(Top.rec_dep)}
    /\ IF Len(stack) = 1
         THEN /\ stack' = <<>>
              /\ cursor' = NextCursor(cursor)
         ELSE /\ stack' = [SubSeq(stack, 1, Len(stack) - 1)
                             EXCEPT ![Len(stack) - 1].cursor = NextCursor(@),
                                    ![Len(stack) - 1].composited = TRUE]
              /\ cursor' = cursor
    /\ UNCHANGED <<level_name, todo, pc, levels, collider_set, portals_map,
                   me_world, translation, col_events, camera, portal_views,
                   tick, touching, hits, tick_log, last_cross,
                   args, ret,
                   textures, needs, surface_cfg,
                   drained,
                   windows,
                   control_flow,
                   trace,
                   created,
                   peers,
                   conns,
                   lossy>>

\* lines 559-561: the invocation at the last pool index returns
InPortalBound ==
    /\ pc = "render"
    /\ stack /= <<>>
    /\ DepthExhausted(Top.rec_dep, portal_views)
    /\ Return

\* a plausible slip: the portal the view looks out of is not passed over
IsEntry_Never(id, world, idx) == FALSE

\* line 564: idx == portal_idx && p_world == world
IsEntry(id, world, idx) == id[2] = idx /\ id[1] = world

\* lines 564-581: render_in_portal's loop skips a portal
InPortalSkip ==
    /\ pc = "render"
    /\ stack /= <<>>
    /\ ~DepthExhausted(Top.rec_dep, portal_views)
    /\ Top.cursor <= Len(PortalOrder(levels))
    /\ LET id == PortalOrder(levels)[Top.cursor]
           this_portal == PortalAt(levels, id[1], id[2])
           entry == PortalAt(levels, Top.world, Top.idx)
       IN  \E see \in BOOLEAN :
              \/ IsEntry(id, Top.world, Top.idx)
              \/ ZCull(this_portal.this, Top.camera)
              \/ ~see
              \/ BehindEntry(this_portal.this, entry.this, Top.camera)
    /\ stack' = [stack EXCEPT ![Len(stack)].cursor = NextCursor(@)]
    /\ UNCHANGED <<level_name, todo, pc, levels, collider_set, portals_map,
                   me_world, translation, col_events, camera, portal_views,
                   tick, touching, hits, tick_log, last_cross, cursor,
                   returned,
                   args, ret,
                   textures, needs, surface_cfg,
                   drained,
                   fresh,
                   windows,
                   control_flow,
                   trace,
                   created,
                   peers,
                   conns,
                   lossy>>

\* lines 585-591: render_in_portal looks through a portal with rec_dep + 1
InPortalRecurse ==
    /\ pc = "render"
    /\ stack /= <<>>
    /\ ~DepthExhausted(Top.rec_dep, portal_views)
    /\ Top.cursor <= Len(PortalOrder(levels))
    /\ LET id == PortalOrder(levels)[Top.cursor]
           this_portal == PortalAt(levels, id[1], id[2])
           entry == PortalAt(levels, Top.world, Top.idx)
       IN  /\ \E see \in BOOLEAN :
                 /\ ~IsEntry(id, Top.world, Top.idx)
                 /\ ~ZCull(this_portal.this, Top.camera)
                 /\ see
                 /\ ~BehindEntry(this_portal.this, entry.this, Top.camera)
           /\ stack' = Append([stack EXCEPT ![Len(stack)].recursed = TRUE],
                              EnterPortal(portal_views, this_portal.connecting,
                                          Top.rec_dep + 1,
                                          PortalCamera(levels, Top.camera,
                                                       this_portal)))
           /\ fresh' = fresh \cup Cleared(stack'[Len(stack')])
    /\ UNCHANGED <<level_name, todo, pc, levels, collider_set, portals_map,
                   me_world, translation, col_events, camera, portal_views,
                   tick, touching, hits, tick_log, last_cross, cursor,
                   returned,
                   args, ret,
                   textures, needs, surface_cfg,
                   drained,
                   windows,
                   control_flow,
                   trace,
                   created,
                   peers,
                   conns,
                   lossy>>

\* line 609: render_in_portal's loops are over, the invocation returns
InPortalDone ==
    /\ pc = "render"
    /\ stack /= <<>>
    /\ ~DepthExhausted(Top.rec_dep, portal_views)
    /\ Top.cursor > Len(PortalOrder(levels))
    /\ Return

\* lines 666-667: render's loops are over, the frame is recorded
RenderEnd ==
    /\ pc = "render"
    /\ stack = <<>>
    /\ cursor > Len(PortalOrder(levels))
    /\ pc' = "idle"
    /\ UNCHANGED <<level_name, todo, levels, collider_set, portals_map,
                   me_world, translation, col_events, camera, portal_views,
                   tick, touching, hits, tick_log, last_cross, cursor, stack,
                   returned,
                   args, ret,
                   textures, needs, surface_cfg,
                   drained,
                   fresh,
                   windows,
                   control_flow,
                   trace,
                   created,
                   peers,
                   conns,
                   lossy>>

\* the steps of a frame in progress
RenderStep ==
    \/ RenderSkip
    \/ RenderPortal
    \/ InPortalBound
    \/ InPortalSkip
    \/ InPortalRecurse
    \/ InPortalDone
    \/ RenderEnd

Next ==
    \/ AddPortal
    \/ Built
    \/ Update

Spec == Init /\ [][Next]_vars

(* The program rendering frames of the level as constructed. *)
NextRender ==
    \/ AddPortal
    \/ Built
    \/ RenderBegin
    \/ RenderSkip
    \/ RenderPortal
    \/ InPortalBound
    \/ InPortalSkip
    \/ InPortalRecurse
    \/ InPortalDone
    \/ RenderEnd

SpecRender == Init /\ [][NextRender]_vars

\* a frame in progress is never abandoned
FairSpecRender == SpecRender /\ WF_vars(RenderStep)

\* frames of a window that is resized between them
NextResize ==
    \/ AddPortal
    \/ Built
    \/ Resized
    \/ RenderBegin
    \/ RenderSkip
    \/ RenderPortal
    \/ InPortalBound
    \/ InPortalSkip
    \/ InPortalRecurse
    \/ InPortalDone
    \/ RenderEnd

SpecResize == Init /\ [][NextResize]_vars

(* Frames: the state's update, which calls MagicLevel::update, and its
   render, tick after tick; for the levels of two worlds. *)
InitFrame == Init /\ Len(levels) = 2

NextFrame == Update \/ NextRender

SpecFrame == InitFrame /\ [][NextFrame]_vars

----------------------------------------------------------------------------
(* The sub-render camera taken through a portal and back through its link. *)

\* components of the eye's offset from the portal, across and along its plane
PoseOffsets == {Rat(-12, 1), Rat(-1, 2), Zero, Rat(6, 1)}
\* the eye's height over the portal's centre
PoseHeights == {Zero, Rat(1, 2)}
\* look directions
PoseTargets == {VX, VecI(0, -1, 0), Vec(Rat(3, 5), Rat(-4, 5), Rat(1, 2))}

\* the poses the round trip is taken from, relative to the portal
Poses ==
    { [offset |-> Vec(x, y, z), target |-> t] :
        x \in PoseOffsets, y \in PoseOffsets, z \in PoseHeights,
        t \in PoseTargets }

InitCoord ==
    /\ InitLevel
    /\ args \in {<<a>> : a \in Poses}
    /\ ret = <<>>

(* The camera at args' pose before portal A is taken through A to A's link
   B as render and render_in_portal do (lines 585-588), and the resulting
   camera is taken through B to B's link, A. *)
RoundTrip ==
    /\ pc = "idle"
    /\ args /= <<>>
    /\ ret = <<>>
    /\ \E id \in PortalIds(levels) :
          LET A == PortalAt(levels, id[1], id[2])
              B == PortalAt(levels, A.connecting[1], A.connecting[2])
              cam == [eye |-> VAdd(A.this.pos, args[1].offset),
                      target |-> args[1].target]
              there == PortalCamera(levels, cam, A)
              back == PortalCamera(levels, there, B)
          IN  ret' = <<[portal |-> id, camera |-> cam, there |-> there,
                        back |-> back]>>
    /\ UNCHANGED <<level_name, todo, pc, levels, collider_set, portals_map,
                   me_world, translation, col_events, camera, portal_views,
                   tick, touching, hits, tick_log, last_cross, cursor, stack,
                   returned, args,
                   textures, needs, surface_cfg,
                   drained,
                   fresh,
                   windows,
                   control_flow,
                   trace,
                   created,
                   peers,
                   conns,
                   lossy>>

NextCoord ==
    \/ AddPortal
    \/ Built
    \/ RoundTrip

SpecCoord == InitCoord /\ [][NextCoord]_vars

(* The crossing of lines 492-501 on its own: the camera at args' pose before
   portal `id` is taken through it as update does, and the position is
   written to the camera and to the body. *)
CrossOver ==
    /\ pc = "idle"
    /\ args /= <<>>
    /\ ret = <<>>
    /\ \E id \in PortalIds(levels) :
          LET P == PortalAt(levels, id[1], id[2])
              cam == [eye |-> VAdd(P.this.pos, args[1].offset),
                      target |-> args[1].target]
              st == ApplyCrossing([camera |-> cam, translation |-> cam.eye,
                                   collider_set |-> collider_set,
                                   me_world |-> me_world, coled |-> {},
                                   log |-> <<>>, hits |-> <<>>,
                                   queue |-> <<>>],
                                  levels, id)
          IN  ret' = <<[portal |-> id, camera |-> cam, eye |-> st.camera.eye,
                        body |-> st.translation]>>
    /\ UNCHANGED <<level_name, todo, pc, levels, collider_set, portals_map,
                   me_world, translation, col_events, camera, portal_views,
                   tick, touching, hits, tick_log, last_cross, cursor, stack,
                   returned, args, textures, needs, surface_cfg, drained,
                   fresh,
                   windows,
                   control_flow,
                   trace,
                   created,
                   peers,
                   conns,
                   lossy>>

SpecCross == InitCoord /\ [][AddPortal \/ Built \/ CrossOver]_vars

(* Coord::from_camera_portal_for_view on its own.  The camera is placed before
   a portal of the level at an offset given in the portal's basis: `right`
   in halves of the portal's width, `forward` and `up` as lengths. *)
InitView ==
    /\ InitLevel
    /\ args \in {<<[right |-> k, forward |-> f, up |-> u]>> :
                    k \in -4..4, f \in {Rat(1, 2), I(3)},
                    u \in {Zero, Rat(-1, 2)}}
    /\ ret = <<>>

\* the camera at the offset `a` from the portal
ViewPose(this, a) ==
    [eye |-> VAdd(this.pos,
                  VAdd(VScale(PortalRight(this),
                              RMul(Rat(a.right, 2), this.width)),
                       VAdd(VScale(this.out_normal, a.forward),
                            VScale(this.up, a.up)))),
     target |-> VX]

ViewThrough ==
    /\ pc = "idle"
    /\ args /= <<>>
    /\ ret = <<>>
    /\ \E id \in PortalIds(levels) :
          LET P == PortalAt(levels, id[1], id[2])
              cam == ViewPose(P.this, args[1])
          IN  ret' = <<[portal |-> id, camera |-> cam,
                        coord |-> from_camera_portal_for_view(cam, P)]>>
    /\ UNCHANGED <<level_name, todo, pc, levels, collider_set, portals_map,
                   me_world, translation, col_events, camera, portal_views,
                   tick, touching, hits, tick_log, last_cross, cursor, stack,
                   returned, args, textures, needs, surface_cfg, drained,
                   fresh,
                   windows,
                   control_flow,
                   trace,
                   created,
                   peers,
                   conns,
                   lossy>>

SpecView == InitView /\ [][AddPortal \/ Built \/ ViewThrough]_vars

----------------------------------------------------------------------------
(* will_see_face.  An f32 is a rational <<n, d>> or, with d = 0, an
   infinity (<<1, 0>>, <<-1, 0>>) or NaN (<<0, 0>>). *)

NaN == <<0, 0>>
PosInf == <<1, 0>>
NegInf == <<-1, 0>>

\* a / w in f32: x / 0 is an infinity with the sign of x (w = +0.0), 0 / 0 NaN
FDiv(a, w) ==
    IF w[1] /= 0
      THEN RDiv(a, w)
      ELSE IF a[1] > 0 THEN PosInf ELSE IF a[1] < 0 THEN NegInf ELSE NaN

\* a <= b in f32: false when either is NaN
FLe(a, b) ==
    /\ a /= NaN
    /\ b /= NaN
    /\ IF a[2] = 0 \/ b[2] = 0
         THEN a = b \/ a = NegInf \/ b = PosInf
         ELSE RLe(a, b)

\* f32::min and f32::max: the other operand when one is NaN
FMin(a, b) == IF a = NaN THEN b ELSE IF b = NaN THEN a
              ELSE IF FLe(a, b) THEN a ELSE b
FMax(a, b) == IF a = NaN THEN b ELSE IF b = NaN THEN a
              ELSE IF FLe(a, b) THEN b ELSE a

\* Matrix4 * Vector4, the matrix as its four rows
MatVec(m, v) ==
    [r \in 1..4 |->
        RAdd(RAdd(RMul(m[r][1], v[1]), RMul(m[r][2], v[2])),
             RAdd(RMul(m[r][3], v[3]), RMul(m[r][4], v[4])))]

\* lines 269-270: view * vector![x, y, z, 1.0], then result /= result.w
Project(view, pos) ==
    LET result == MatVec(view, <<pos[1], pos[2], pos[3], One>>)
    IN  [k \in 1..4 |-> FDiv(result[k], result[4])]

\* lines 263-267: the loop's variables before the first corner
FaceStart ==
    [mn_x |-> I(2), mx_x |-> I(-2), mn_y |-> I(2), mx_y |-> I(-2),
     front |-> FALSE]

\* lines 268-278: the loop over plane.vertex, from corner k on
RECURSIVE FaceLoop(_, _, _, _)
FaceLoop(view, vertex, k, acc) ==
    IF k > Len(vertex)
      THEN acc
      ELSE LET result == Project(view, vertex[k])
           IN  FaceLoop(view, vertex, k + 1,
                   [mn_x |-> FMin(result[1], acc.mn_x),
                    mx_x |-> FMax(result[1], acc.mx_x),
                    mn_y |-> FMin(result[2], acc.mn_y),
                    mx_y |-> FMax(result[2], acc.mx_y),
                    front |-> acc.front
                              \/ (FLe(Zero, result[3]) /\ FLe(result[3], One))])

\* a plausible slip: the screen-space x bounds cull the face
will_see_face_CullX(view, plane) ==
    LET acc == FaceLoop(view, plane.vertex, 1, FaceStart)
    IN  acc.front /\ FLe(acc.mn_x, One) /\ FLe(I(-1), acc.mx_x)

(* will_see_face: true when some corner's depth is in [0, 1]; the bounds of
   x and y are computed and not used. *)
will_see_face(view, plane) ==
    LET acc == FaceLoop(view, plane.vertex, 1, FaceStart)
    IN  IF acc.front THEN TRUE ELSE FALSE

\* rows of the matrices will_see_face is applied to
RowsX == {<<One, Zero, Zero, Zero>>, <<Zero, I(3), Zero, I(-1)>>}
RowsY == {<<Zero, One, Zero, Zero>>, <<Zero, Zero, I(2), I(5)>>}
RowsZ == {<<Zero, Zero, One, Zero>>, <<I(-1), Zero, Zero, One>>,
          <<One, Zero, Zero, I(-2)>>}
RowsW == {<<Zero, Zero, Zero, One>>, <<One, Zero, Zero, Zero>>,
          <<I(-1), Zero, Zero, One>>}

\* the quads: squares of half-size r around a centre, normal to an axis
QuadCentres == {VecI(0, 0, 0), VecI(2, 0, 1), VecI(-1, 1, 1)}
QuadSizes == {Rat(1, 2), One}
QuadAxes == {<<VY, VZ>>, <<VX, VZ>>, <<VX, VY>>}

Quad(c, r, ax) ==
    [vertex |->
        << VAdd(c, VAdd(VScale(ax[1], RNeg(r)), VScale(ax[2], RNeg(r)))),
           VAdd(c, VAdd(VScale(ax[1], r), VScale(ax[2], RNeg(r)))),
           VAdd(c, VAdd(VScale(ax[1], r), VScale(ax[2], r))),
           VAdd(c, VAdd(VScale(ax[1], RNeg(r)), VScale(ax[2], r))) >>]

FaceInputs ==
    { [view |-> <<x, y, z, w>>, plane |-> Quad(c, r, ax)] :
        x \in RowsX, y \in RowsY, z \in RowsZ, w \in RowsW,
        c \in QuadCentres, r \in QuadSizes, ax \in QuadAxes }

InitFace ==
    /\ InitLevel
    /\ level_name = "level_loop"
    /\ args \in {<<a>> : a \in FaceInputs}
    /\ ret = <<>>

\* will_see_face applied to args
SeeFace ==
    /\ args /= <<>>
    /\ ret = <<>>
    /\ ret' = <<[seen |-> will_see_face(args[1].view, args[1].plane)]>>
    /\ UNCHANGED <<level_name, todo, pc, levels, collider_set, portals_map,
                   me_world, translation, col_events, camera, portal_views,
                   tick, touching, hits, tick_log, last_cross, cursor, stack,
                   returned, args,
                   textures, needs, surface_cfg,
                   drained,
                   fresh,
                   windows,
                   control_flow,
                   trace,
                   created,
                   peers,
                   conns,
                   lossy>>

NextFace == SeeFace

SpecFace == InitFace /\ [][NextFace]_vars

----------------------------------------------------------------------------
(* Camera::calc_target on its own.  An angle is given by the tangent t of its
   half, a rational, so that its sine 2t / (1 + t^2) and its cosine
   (1 - t^2) / (1 + t^2) are exact; <<1, 0>> stands for the half turn. *)

\* camera.rs line 6
UP == VecI(0, 0, 1)

\* to_radians().simd_sin_cos() of the angle whose half has the tangent t
sin_cos(t) ==
    IF t[2] = 0
      THEN [sin |-> Zero, cos |-> I(-1)]
      ELSE LET q == RAdd(One, RMul(t, t))
           IN  [sin |-> RDiv(RMul(I(2), t), q),
                cos |-> RDiv(RSub(One, RMul(t, t)), q)]

\* calc_target with the heading left unscaled by the cosine of the pitch
calc_target_Unscaled(yaw, pitch) ==
    LET y == sin_cos(yaw)
        target == Vec(y.cos, RMul(y.sin, RSub(One, UP[2])),
                      RMul(y.sin, RSub(One, UP[3])))
        p == sin_cos(pitch)
    IN  VAdd(target, VScale(UP, p.sin))

calc_target(yaw, pitch) ==
    LET y == sin_cos(yaw)
        target == Vec(y.cos, RMul(y.sin, RSub(One, UP[2])),
                      RMul(y.sin, RSub(One, UP[3])))
        p == sin_cos(pitch)
    IN  VAdd(VScale(target, p.cos), VScale(UP, p.sin))

\* yaw and pitch: 0, a quarter turn either way, the half turn and angles
\* between them
InitTarget ==
    /\ InitLevel
    /\ level_name = "level_loop"
    /\ \E yaw, pitch \in {Zero, One, I(-1), <<1, 0>>, Rat(1, 2), Rat(-1, 2),
                          Rat(1, 3), I(2), I(-2), I(3)} :
          args = <<[yaw |-> yaw, pitch |-> pitch]>>
    /\ ret = <<>>

\* calc_target applied to args
CalcTarget ==
    /\ args /= <<>>
    /\ ret = <<>>
    /\ ret' = <<[target |-> calc_target(args[1].yaw, args[1].pitch)]>>
    /\ UNCHANGED <<level_name, todo, pc, levels, collider_set, portals_map,
                   me_world, translation, col_events, camera, portal_views,
                   tick, touching, hits, tick_log, last_cross, cursor, stack,
                   returned, args, textures, needs, surface_cfg,
                   drained,
                   fresh,
                   windows,
                   control_flow,
                   trace,
                   created,
                   peers,
                   conns,
                   lossy>>

SpecTarget == InitTarget /\ [][CalcTarget]_vars

----------------------------------------------------------------------------
(* The window manager.  A GameState object is [id, kind, state], `state`
   being the id of the Test3DState an OverlayView points to and 0 for the
   others; a Trans is [tag, state, ts]; an entry of the trace is a method
   called on a state, or the panic that ended the program. *)

\* the most GameState objects a run creates
MaxCreated == 4

State(id, kind, ref) == [id |-> id, kind |-> kind, state |-> ref]

Tran(tag, x, ts) == [tag |-> tag, state |-> x, ts |-> ts]

Called(x, method) == [state |-> x.id, method |-> method]

\* Option::unwrap on None
Panic == [state |-> 0, method |-> "panic"]

Panicked(tr) == tr /= <<>> /\ tr[Len(tr)] = Panic

\* lines 158-160: while let Some(mut last) = self.states.pop() { last.stop }
RECURSIVE StopAll(_, _)
StopAll(states, tr) ==
    IF states = <<>>
      THEN tr
      ELSE StopAll(SubSeq(states, 1, Len(states) - 1),
                   Append(tr, Called(states[Len(states)], "stop")))

\* a plausible slip: the replaced state is dropped without being stopped
TransSwitch_NoStop(w, x) ==
    [w EXCEPT !.trace = Append(@, Called(x, "start")),
              !.states[Len(w.states)] = x]

\* lines 153-157: last.stop(..); *last = x; last.start(..)
TransSwitch(w, x) ==
    [w EXCEPT !.trace = @ \o <<Called(w.states[Len(w.states)], "stop"),
                               Called(x, "start")>>,
              !.states[Len(w.states)] = x]

(* WindowInstance::process_tran on w = [states, running, trace]; line 142
   unwraps self.states.last_mut() before it looks at the transition. *)
RECURSIVE process_tran(_, _)
RECURSIVE ForEach(_, _)
process_tran(w, tran) ==
    IF Panicked(w.trace)
      THEN w
      ELSE IF w.states = <<>>
        THEN [w EXCEPT !.trace = Append(@, Panic)]
        ELSE CASE tran.tag = "Push" ->
                    [w EXCEPT !.trace = Append(@, Called(tran.state, "start")),
                              !.states = Append(@, tran.state)]
               [] tran.tag = "Pop" ->
                    [w EXCEPT !.trace = Append(@, Called(w.states[Len(w.states)],
                                                         "stop")),
                              !.states = SubSeq(@, 1, Len(@) - 1)]
               [] tran.tag = "Switch" -> TransSwitch(w, tran.state)
               [] tran.tag = "Exit" ->
                    [w EXCEPT !.trace = StopAll(w.states, @),
                              !.states = <<>>,
                              !.running = FALSE]
               [] tran.tag = "Vec" -> ForEach(w, tran.ts)
               [] tran.tag = "None" -> w

\* lines 164-168: for t in ts { self.process_tran(t, el) }
ForEach(w, ts) ==
    IF ts = <<>> THEN w ELSE ForEach(process_tran(w, Head(ts)), Tail(ts))

\* WindowInstance::new_from_window, with `states` on its stack
WindowInstance(states) ==
    [states |-> states, running |-> TRUE, got_event |-> FALSE,
     loop_state |-> "Poll"]

\* Test3DState::default(): no level is loaded
NoLevel ==
    /\ level_name = "none"
    /\ todo = <<>>
    /\ pc = "idle"
    /\ levels = <<>>
    /\ collider_set = <<>>
    /\ portals_map = <<>>
    /\ me_world = 0
    /\ translation = Spawn
    /\ col_events = <<>>
    /\ camera = InitCamera
    /\ portal_views = <<>>
    /\ surface_cfg = SurfaceSize
    /\ drained = <<>>
    /\ fresh = {}
    /\ tick = 0
    /\ touching = {}
    /\ hits = <<>>
    /\ tick_log = <<>>
    /\ last_cross = <<>>
    /\ cursor = 1
    /\ stack = <<>>
    /\ returned = <<>>
    /\ textures = LoadedTextures
    /\ needs = <<>>
    /\ ret = <<>>

(* process_tran on its own: a window with one to three states on its stack
   is handed transitions, as loop_once and render_once hand it what the top
   state's update and render return. *)
\* no server and no peer
NoNet ==
    /\ peers = <<>>
    /\ conns = <<>>
    /\ lossy = FALSE

InitTran ==
    /\ NoLevel
    /\ NoNet
    /\ \E n \in 1..3 :
          /\ windows = [id \in {"root"} |->
                          WindowInstance([i \in 1..n |-> State(i, "state", 0)])]
          /\ created = n
    /\ control_flow = "Poll"
    /\ trace = <<>>
    /\ args = <<>>

\* the transitions a state may return, built around new states a and b
Transitions(a, b) ==
    LET none == State(0, "none", 0)
        Atoms(x) == {Tran("Push", x, <<>>), Tran("Switch", x, <<>>),
                     Tran("Pop", none, <<>>), Tran("Exit", none, <<>>),
                     Tran("None", none, <<>>)}
        Batches == {<<>>} \cup {<<p>> : p \in Atoms(a)}
                      \cup {<<p, q>> : p \in Atoms(a), q \in Atoms(b)}
                      \cup {<<Tran("Vec", none, <<p>>), q>> :
                               p \in Atoms(a), q \in Atoms(b)}
    IN  Atoms(a) \cup {Tran("Vec", none, ts) : ts \in Batches}

\* the ids of the states a transition carries
RECURSIVE Carried(_)
Carried(tran) ==
    (IF tran.tag \in {"Push", "Switch"} THEN {tran.state.id} ELSE {})
        \cup UNION {Carried(tran.ts[k]) : k \in DOMAIN tran.ts}

\* lines 129-134 and 213-216: if let Some(last) .. self.process_tran(tran, wd)
ApplyTran ==
    /\ windows["root"].states /= <<>>
    /\ ~Panicked(trace)
    /\ \E tran \in Transitions(State(created + 1, "state", 0),
                                State(created + 2, "state", 0)) :
          LET ids == Carried(tran) \cup {created}
              top == CHOOSE m \in ids : \A k \in ids : k <= m
              w == process_tran([states |-> windows["root"].states,
                                 running |-> windows["root"].running,
                                 trace |-> <<>>], tran)
          IN  /\ top <= MaxCreated
              /\ windows' = [windows EXCEPT !["root"].states = w.states,
                                            !["root"].running = w.running]
              /\ trace' = w.trace
              /\ args' = <<tran>>
              /\ created' = top
    /\ UNCHANGED <<level_name, todo, pc, levels, collider_set, portals_map,
                  me_world, translation, col_events, camera, portal_views,
                  tick, touching, hits, tick_log, last_cross, cursor, stack,
                  returned, ret, textures, needs, surface_cfg, drained,
                  fresh, control_flow,
                   peers,
                   conns,
                   lossy>>

SpecTran == InitTran /\ [][ApplyTran]_vars

----------------------------------------------------------------------------
(* WindowManager::run_loop.  The closure given to event_loop.run handles one
   event at a time, to its end.  A LoopState is its control_flow, "Wait" or
   "Poll"; the window ids are "root" and "overlay". *)

\* impl BitOrAssign for LoopState, as f_ls |= ls uses it
BitOr(a, b) == IF "Poll" \in {a, b} THEN "Poll" ELSE "Wait"

\* a plausible slip: events are handled after the loop was told to exit
EarlyReturn_Never == FALSE

\* lines 389-392: if *control_flow == ControlFlow::Exit { return; }
EarlyReturn == control_flow = "Exit"

(* What the update of the state x may return: the transition, the loop state
   and whether it pushed a new window to new_windows.  InitState pushes the
   state that waits for the textures; that one goes on waiting, switches to
   the start state or exits; Test3DState opens the overlay window when key 6
   is pressed. *)
update(x, n) ==
    LET none == State(0, "none", 0)
    IN  CASE x.kind = "InitState" ->
               {[tran |-> Tran("Push", State(n + 1, "WaitFutureState", 0), <<>>),
                 ls |-> "Poll", opens |-> FALSE]}
          [] x.kind = "WaitFutureState" ->
               {[tran |-> tr, ls |-> ls, opens |-> FALSE] :
                  tr \in {Tran("None", none, <<>>), Tran("Exit", none, <<>>),
                          Tran("Switch", State(2, "Test3DState", 0), <<>>)},
                  ls \in {"Wait", "Poll"}}
          [] x.kind = "Test3DState" ->
               {[tran |-> Tran("None", none, <<>>), ls |-> ls, opens |-> o] :
                  ls \in {"Wait", "Poll"}, o \in BOOLEAN}
          [] OTHER ->
               {[tran |-> Tran("None", none, <<>>), ls |-> "Poll",
                 opens |-> FALSE]}

\* the calls of `method` on every state of the stack, bottom first
Each(states, method) == [k \in DOMAIN states |-> Called(states[k], method)]

(* WindowInstance::loop_once with the top state's update returning r; a new
   overlay window's state is started inside that update. *)
loop_once(w, r, n) ==
    LET top == w.states[Len(w.states)]
        m == process_tran(
                 [states |-> w.states, running |-> w.running,
                  trace |-> Each(w.states, "shadow_update")
                              \o <<Called(top, "update")>>
                              \o IF r.opens
                                   THEN <<Called(State(n + 1, "OverlayView",
                                                       top.id), "start")>>
                                   ELSE <<>>],
                 r.tran)
    IN  [states |-> m.states, running |-> m.running, got_event |-> FALSE,
         loop_state |-> BitOr("Wait", r.ls), trace |-> m.trace]

\* run_loop up to event_loop.run: the root window starts the start state
InitWindows ==
    /\ NoLevel
    /\ NoNet
    /\ windows = [id \in {"root"} |->
                    WindowInstance(<<State(1, "InitState", 0)>>)]
    /\ created = 2
    /\ control_flow = "Poll"
    /\ trace = <<Called(State(1, "InitState", 0), "start")>>
    /\ args = <<>>

(* lines 497-533, Event::MainEventsCleared: every window that has something
   to do is updated, or found not running and removed; the control flow is
   that of the loop states of the windows updated. *)
MainEventsCleared ==
    /\ ~EarlyReturn
    /\ LET ids == DOMAIN windows
           passed(id) == ~windows[id].got_event
                           /\ windows[id].loop_state = "Wait"
           runs(id) == ~passed(id) /\ windows[id].states /= <<>>
                         /\ windows[id].running
           not_running == {id \in ids : ~passed(id) /\ ~runs(id)}
           idle == [tran |-> Tran("None", State(0, "none", 0), <<>>),
                    ls |-> "Wait", opens |-> FALSE]
       IN  \E r \in [ids -> UNION {update(State(0, k, 0), created) :
                                      k \in {"InitState", "WaitFutureState",
                                             "Test3DState", "OverlayView"}}
                                \cup {idle}] :
              /\ \A id \in ids :
                     r[id] \in IF runs(id)
                                 THEN update(windows[id].states[
                                                 Len(windows[id].states)],
                                             created)
                                 ELSE {idle}
              /\ \A id \in ids :
                     r[id].opens => /\ "overlay" \notin ids
                                    /\ created + 1 <= MaxCreated
              /\ LET after == [id \in ids |->
                                  IF runs(id)
                                    THEN loop_once(windows[id], r[id], created)
                                    ELSE windows[id] @@ [trace |-> <<>>]]
                     f_ls == IF \E id \in ids : runs(id) /\ r[id].ls = "Poll"
                               THEN "Poll" ELSE "Wait"
                     opened == {id \in ids : r[id].opens}
                     made == Cardinality(
                                {id \in ids :
                                    runs(id) /\ r[id].tran.tag = "Push"})
                                + Cardinality(opened)
                 IN  /\ windows' =
                           [id \in (ids \ not_running)
                                     \cup {"overlay" : o \in opened} |->
                              IF id \in ids
                                THEN [states |-> after[id].states,
                                      running |-> after[id].running,
                                      got_event |-> after[id].got_event,
                                      loop_state |-> after[id].loop_state]
                                ELSE LET by == CHOOSE o \in opened : TRUE
                                         on == windows[by].states
                                     IN  WindowInstance(
                                            <<State(created + 1, "OverlayView",
                                                    on[Len(on)].id)>>)]
                     /\ control_flow' = f_ls
                     /\ trace' = (IF "root" \in ids THEN after["root"].trace
                                                    ELSE <<>>)
                                    \o (IF "overlay" \in ids
                                          THEN after["overlay"].trace
                                          ELSE <<>>)
                     /\ created' = created + made
    /\ args' = <<[event |-> "MainEventsCleared", window |-> "all"]>>
    /\ UNCHANGED <<level_name, todo, pc, levels, collider_set, portals_map,
                  me_world, translation, col_events, camera, portal_views,
                  tick, touching, hits, tick_log, last_cross, cursor, stack,
                  returned, ret, textures, needs, surface_cfg, drained,
                  fresh,
                   peers,
                   conns,
                   lossy>>

(* lines 397-401 and 488-494, Event::RedrawRequested(w): render_once calls
   shadow_render on every state of the window and render on the top one,
   and applies the transition it returns (Trans::None for every state of
   this program). *)
RedrawRequested ==
    /\ ~EarlyReturn
    /\ \E w \in DOMAIN windows :
          /\ windows[w].states /= <<>>
          /\ trace' = Each(windows[w].states, "shadow_render")
                         \o <<Called(windows[w].states[Len(windows[w].states)],
                                     "render")>>
          /\ args' = <<[event |-> "RedrawRequested", window |-> w]>>
    /\ UNCHANGED windows
    /\ UNCHANGED control_flow
    /\ UNCHANGED created
    /\ UNCHANGED <<level_name, todo, pc, levels, collider_set, portals_map,
                  me_world, translation, col_events, camera, portal_views,
                  tick, touching, hits, tick_log, last_cross, cursor, stack,
                  returned, ret, textures, needs, surface_cfg, drained,
                  fresh,
                   peers,
                   conns,
                   lossy>>

(* lines 394-400, 407-422 and 469-474, Event::WindowEvent: the window's
   states get the event; CloseRequested and Destroyed remove the window and
   end the loop when it is the root; Resized removes a window that is not
   running. *)
WindowEvent ==
    /\ ~EarlyReturn
    /\ \E w \in {"root", "overlay"},
          e \in {"CloseRequested", "Destroyed", "Resized", "KeyboardInput"} :
          LET known == w \in DOMAIN windows
              gone == \/ e \in {"CloseRequested", "Destroyed"}
                      \/ e = "Resized" /\ known /\ ~windows[w].running
          IN  /\ trace' = IF known THEN Each(windows[w].states, "on_event")
                                   ELSE <<>>
              /\ windows' =
                    [id \in DOMAIN windows \ (IF gone THEN {w} ELSE {}) |->
                       IF id = w THEN [windows[id] EXCEPT !.got_event = TRUE]
                                 ELSE windows[id]]
              /\ control_flow' =
                    IF e \in {"CloseRequested", "Destroyed"} /\ w = "root"
                      THEN "Exit" ELSE control_flow
              /\ args' = <<[event |-> e, window |-> w]>>
    /\ UNCHANGED created
    /\ UNCHANGED <<level_name, todo, pc, levels, collider_set, portals_map,
                  me_world, translation, col_events, camera, portal_views,
                  tick, touching, hits, tick_log, last_cross, cursor, stack,
                  returned, ret, textures, needs, surface_cfg, drained,
                  fresh,
                   peers,
                   conns,
                   lossy>>

NextWindows ==
    \/ MainEventsCleared
    \/ RedrawRequested
    \/ WindowEvent

SpecWindows == InitWindows /\ [][NextWindows]_vars

----------------------------------------------------------------------------
(* engine/network: the server and its peers.  A Peer value is a clone of
   [listening, addr, sender]; `listening` is one AtomicBool shared by the
   clones.  conns[p] holds that flag, the errs counter and the position of
   the run_loop task of peer p, and the number of clones alive. *)

\* the most peers the server accepts
MaxPeers == 2
\* the most clones of one peer alive at a time
MaxClones == 3
\* errs is not followed beyond this
MaxErrs == 7
\* the most messages one recv and the try_recv calls after it deliver
MaxBatch == 2

\* got_err!: if errs > 5 { break; }
ErrLimit == 5

Addrs == {"a", "b"}

\* a plausible slip: the flag is cleared by the drop of the last clone only
Peer_drop_LastOnly(c) ==
    [c EXCEPT !.listening = @ /\ c.clones > 1, !.clones = @ - 1]

\* impl Drop for Peer: self.listening.store(false, Ordering::Relaxed)
Peer_drop(c) == [c EXCEPT !.listening = FALSE, !.clones = @ - 1]

(* lines 54-97, the loop over the messages received from the channel: a
   reliable send or a complete one-shot send resets errs, a failed send
   counts an error and, beyond the limit, breaks this loop; a one-shot send
   that is pending or incomplete does neither. *)
RECURSIVE SendAll(_, _)
SendAll(errs, msgs) ==
    IF msgs = <<>>
      THEN errs
      ELSE CASE Head(msgs) = "sent" -> SendAll(0, Tail(msgs))
             [] Head(msgs) = "failed" ->
                  IF errs + 1 > ErrLimit
                    THEN errs + 1
                    ELSE SendAll(errs + 1, Tail(msgs))
             [] OTHER -> SendAll(errs, Tail(msgs))

(* One turn of the while loop of Peer::run_loop, from select! to the next
   test of `listening`: [errs, left], `left` when a break left the while
   loop.  `branch` is what select! chose and how it went. *)
Turn(errs, branch) ==
    CASE branch.on = "send" ->
           LET e == SendAll(errs, branch.msgs)
           IN  IF branch.flushed
                 THEN [errs |-> e, left |-> FALSE]
                 ELSE [errs |-> e + 1, left |-> e + 1 > ErrLimit]
      [] branch.on = "recv" ->
           IF branch.ok
             THEN [errs |-> 0, left |-> ~branch.handled]
             ELSE [errs |-> errs + 1, left |-> errs + 1 > ErrLimit]

\* what select! can choose and how it can go, on a stream that can fail
\* and on one that cannot
Branches(fails) ==
    LET sends == IF fails THEN {"sent", "failed", "partial"}
                          ELSE {"sent", "partial"}
        oks == IF fails THEN BOOLEAN ELSE {TRUE}
    IN  {[on |-> "send", msgs |-> m, flushed |-> f] :
            m \in UNION {[1..n -> sends] : n \in 1..MaxBatch}, f \in oks}
          \cup {[on |-> "recv", ok |-> o, handled |-> h] :
                   o \in oks, h \in BOOLEAN}

\* a plausible slip: the map is never cleaned
retain_All(map, cs) == DOMAIN map

\* HashMap::retain(|_, p| p.listening.load(..)): the entries kept
retain(map, cs) == {a \in DOMAIN map : cs[map[a]].listening}

\* no window is open
NoWindows ==
    /\ windows = <<>>
    /\ control_flow = "Poll"
    /\ trace = <<>>
    /\ created = 0
    /\ args = <<>>

\* Peer::new, lines 28-37: the peer returned and the clone its run_loop
\* holds; its stream can fail
InitPeer ==
    /\ NoLevel
    /\ NoWindows
    /\ peers = <<>>
    /\ conns \in {<<[addr |-> a, listening |-> TRUE, errs |-> 0,
                      task |-> "running", clones |-> 2]>> : a \in Addrs}
    /\ lossy = TRUE

\* Server::new: no peers yet; the streams of the peers accepted do not fail
InitNet ==
    /\ NoLevel
    /\ NoNet
    /\ NoWindows

\* lines 51-118: a turn of the loop of peer p
PeerTurn ==
    \E p \in DOMAIN conns, branch \in Branches(lossy) :
        /\ conns[p].task = "running"
        /\ conns[p].listening
        /\ conns[p].errs <= MaxErrs
        /\ LET t == Turn(conns[p].errs, branch)
           IN  conns' =
                 [conns EXCEPT ![p] =
                    IF t.left
                      THEN Peer_drop([@ EXCEPT !.errs = t.errs,
                                               !.task = "done",
                                               !.listening = FALSE])
                      ELSE [@ EXCEPT !.errs = t.errs]]
        /\ UNCHANGED peers
    /\ UNCHANGED <<level_name, todo, pc, levels, collider_set, portals_map,
                  me_world, translation, col_events, camera, portal_views,
                  tick, touching, hits, tick_log, last_cross, cursor, stack,
                  returned, args, ret, textures, needs, surface_cfg,
                  drained, fresh, windows, control_flow, trace, created,
                   lossy>>

\* lines 51 and 120: the loop finds the flag cleared; run_loop returns
PeerExit ==
    \E p \in DOMAIN conns :
        /\ conns[p].task = "running"
        /\ ~conns[p].listening
        /\ conns' = [conns EXCEPT ![p] =
                        Peer_drop([@ EXCEPT !.task = "done",
                                            !.listening = FALSE])]
        /\ UNCHANGED peers
    /\ UNCHANGED <<level_name, todo, pc, levels, collider_set, portals_map,
                  me_world, translation, col_events, camera, portal_views,
                  tick, touching, hits, tick_log, last_cross, cursor, stack,
                  returned, args, ret, textures, needs, surface_cfg,
                  drained, fresh, windows, control_flow, trace, created,
                   lossy>>

\* #[derive(Clone)]: a holder of a peer (a handler, a reader of the map)
\* clones it
ClonePeer ==
    \E p \in DOMAIN conns :
        /\ conns[p].clones >= 1
        /\ conns[p].clones < MaxClones
        /\ conns' = [conns EXCEPT ![p].clones = @ + 1]
        /\ UNCHANGED peers
    /\ UNCHANGED <<level_name, todo, pc, levels, collider_set, portals_map,
                  me_world, translation, col_events, camera, portal_views,
                  tick, touching, hits, tick_log, last_cross, cursor, stack,
                  returned, args, ret, textures, needs, surface_cfg,
                  drained, fresh, windows, control_flow, trace, created,
                   lossy>>

\* a clone held by neither the run_loop task nor the map is dropped
DropPeer ==
    \E p \in DOMAIN conns :
        /\ conns[p].clones >
              (IF conns[p].task = "running" THEN 1 ELSE 0)
                + (IF \E a \in DOMAIN peers : peers[a] = p THEN 1 ELSE 0)
        /\ conns' = [conns EXCEPT ![p] = Peer_drop(@)]
        /\ UNCHANGED peers
    /\ UNCHANGED <<level_name, todo, pc, levels, collider_set, portals_map,
                  me_world, translation, col_events, camera, portal_views,
                  tick, touching, hits, tick_log, last_cross, cursor, stack,
                  returned, args, ret, textures, needs, surface_cfg,
                  drained, fresh, windows, control_flow, trace, created,
                   lossy>>

(* lines 44-55: a connection is accepted; Peer::new spawns its run_loop
   with a clone; the peer replaces the one of the same address, whose flag
   is cleared; the peers not listening are removed and dropped. *)
Accept ==
    \E addr \in Addrs :
        /\ Len(conns) < MaxPeers
        /\ LET new == Len(conns) + 1
               c1 == Append(conns, [addr |-> addr, listening |-> TRUE,
                                    errs |-> 0, task |-> "running",
                                    clones |-> 2])
               c2 == IF addr \in DOMAIN peers
                       THEN [c1 EXCEPT ![peers[addr]] = Peer_drop(@)]
                       ELSE c1
               map == [a \in DOMAIN peers \cup {addr} |->
                         IF a = addr THEN new ELSE peers[a]]
               kept == retain(map, c2)
           IN  /\ peers' = [a \in kept |-> map[a]]
               /\ conns' = [p \in DOMAIN c2 |->
                              IF \E a \in DOMAIN map \ kept : map[a] = p
                                THEN Peer_drop(c2[p]) ELSE c2[p]]
    /\ UNCHANGED <<level_name, todo, pc, levels, collider_set, portals_map,
                  me_world, translation, col_events, camera, portal_views,
                  tick, touching, hits, tick_log, last_cross, cursor, stack,
                  returned, args, ret, textures, needs, surface_cfg,
                  drained, fresh, windows, control_flow, trace, created,
                   lossy>>

\* lines 61-64: 60 seconds passed without a connection
Timeout ==
    /\ LET kept == retain(peers, conns)
       IN  /\ peers' = [a \in kept |-> peers[a]]
           /\ conns' = [p \in DOMAIN conns |->
                          IF \E a \in DOMAIN peers \ kept : peers[a] = p
                            THEN Peer_drop(conns[p]) ELSE conns[p]]
    /\ UNCHANGED <<level_name, todo, pc, levels, collider_set, portals_map,
                  me_world, translation, col_events, camera, portal_views,
                  tick, touching, hits, tick_log, last_cross, cursor, stack,
                  returned, args, ret, textures, needs, surface_cfg,
                  drained, fresh, windows, control_flow, trace, created,
                   lossy>>

NextNet ==
    \/ PeerTurn
    \/ PeerExit
    \/ ClonePeer
    \/ DropPeer
    \/ Accept
    \/ Timeout

SpecNet == InitNet /\ [][NextNet]_vars

NextPeer ==
    \/ PeerTurn
    \/ PeerExit
    \/ ClonePeer
    \/ DropPeer

SpecPeer == InitPeer /\ [][NextPeer]_vars

----------------------------------------------------------------------------
(* Properties of MagicLevel::update and of the constructed portal graph. *)

\* the crossings of the latest update that went through portal id
CrossingsOf(id) == {k \in 1..Len(tick_log) : tick_log[k].portal = id}

(* C1: within one update, the crossing is applied at most once per
   (world, portal) pair, however many collision-start events of that tick
   reference the portal's sensor: every portal that the event loop looked up
   successfully, once or several times, has exactly one crossing in the
   tick, and no crossing happens without such a lookup. *)
C1_OneCrossingPerPortalPerTick ==
    /\ \A k \in 1..Len(hits) : Cardinality(CrossingsOf(hits[k])) = 1
    /\ \A k \in 1..Len(tick_log) :
          \E j \in 1..Len(hits) : hits[j] = tick_log[k].portal

\* two start events of one tick referenced the same portal, crossed once
C1_Witness ==
    \E i, j \in 1..Len(hits) :
        /\ i < j
        /\ hits[i] = hits[j]
        /\ Cardinality(CrossingsOf(hits[i])) = 1
        /\ me_world = tick_log[Len(tick_log)].to_world

(* C2: a crossing through portal P with scale s and link L multiplies the x
   and y half-extents of the body's bounding cuboid by s, leaves the z
   half-extent alone and sets me_world to L's world; the update leaves the
   body with the half-extents and the world of its last crossing.  For the
   world-0 portal at (1,0,1) of MagicLevel::new the factor is 5 and the new
   world is 1. *)
C2_CrossingRescalesAndSwitches ==
    /\ \A k \in 1..Len(tick_log) :
          LET c == tick_log[k]
              P == PortalAt(levels, c.portal[1], c.portal[2])
              L == PortalAt(levels, P.connecting[1], P.connecting[2])
          IN  /\ c.half_after[1] = RMul(c.half_before[1], P.scale)
              /\ c.half_after[2] = RMul(c.half_before[2], P.scale)
              /\ c.half_after[3] = c.half_before[3]
              /\ c.to_world = L.this.world
              /\ (level_name = "new" /\ c.portal = <<0, 0>>) =>
                    /\ P.this.pos = VecI(1, 0, 1)
                    /\ L.this.pos = VecI(5, 0, -14)
                    /\ c.half_after[1] = RMul(c.half_before[1], I(5))
                    /\ c.half_after[2] = RMul(c.half_before[2], I(5))
                    /\ c.to_world = 1
    /\ tick_log /= <<>> =>
          /\ me_world = tick_log[Len(tick_log)].to_world
          /\ collider_set[body_bounding].half
                = tick_log[Len(tick_log)].half_after

\* the body went through the world-0 portal at (1,0,1) of MagicLevel::new
C2_Witness ==
    /\ level_name = "new"
    /\ Len(tick_log) = 1
    /\ tick_log[1].portal = <<0, 0>>
    /\ tick_log[1].from_world = 0
    /\ me_world = 1
    /\ collider_set[body_bounding].half = Vec(Rat(5, 8), Rat(5, 8), One)

(* C3: when the body crossed portal A in an earlier update and the next
   crossing, in a later update, goes through A's link B, the x and y
   half-extents are again what they were before the crossing through A and
   me_world is A's world. *)
C3_RoundTripRestores ==
    (/\ last_cross /= <<>>
     /\ tick_log /= <<>>
     /\ tick_log[1].portal = Connecting(levels, last_cross[1].portal))
    => /\ tick_log[1].half_after[1] = last_cross[1].half_before[1]
       /\ tick_log[1].half_after[2] = last_cross[1].half_before[2]
       /\ tick_log[1].to_world = last_cross[1].portal[1]

\* a round trip through a pair that rescales the body
C3_Witness ==
    /\ last_cross /= <<>>
    /\ Len(tick_log) = 1
    /\ tick_log[1].portal = Connecting(levels, last_cross[1].portal)
    /\ last_cross[1].half_after /= last_cross[1].half_before
    /\ last_cross[1].portal[1] /= tick_log[1].portal[1]
    /\ me_world = last_cross[1].portal[1]
    /\ collider_set[body_bounding].half = last_cross[1].half_before

(* C4: after any number of MagicLevel::add_portal calls the link of every
   portal addresses an existing portal, a different one, whose own link
   addresses the portal back; also for a pair added to one world. *)
C4_LinkIsInvolution ==
    \A id \in PortalIds(levels) :
        /\ PortalExists(levels, Connecting(levels, id)[1],
                        Connecting(levels, id)[2])
        /\ Connecting(levels, id) /= id
        /\ Connecting(levels, Connecting(levels, id)) = id

\* level_loop: both portals of the pair in world 0, linked to each other
C4_Witness ==
    /\ level_name = "level_loop"
    /\ todo = <<>>
    /\ PortalIds(levels) = {<<0, 0>>, <<0, 1>>}
    /\ Connecting(levels, <<0, 0>>) = <<0, 1>>
    /\ Connecting(levels, <<0, 1>>) = <<0, 0>>

(* C5: in every constructed level the scales of a portal and of its link
   multiply to 1. *)
C5_ScalesAreReciprocal ==
    \A id \in PortalIds(levels) :
        LET A == PortalAt(levels, id[1], id[2])
            B == PortalAt(levels, A.connecting[1], A.connecting[2])
        IN  RMul(A.scale, B.scale) = One

\* a finished level with a pair whose scales are 5 and 1/5
C5_Witness ==
    /\ pc = "idle"
    /\ \E id \in PortalIds(levels) :
          /\ PortalAt(levels, id[1], id[2]).scale = I(5)
          /\ LET c == Connecting(levels, id)
             IN  PortalAt(levels, c[1], c[2]).scale = Rat(1, 5)

----------------------------------------------------------------------------
(* Properties of MagicLevel::render. *)

(* C6: every render_in_portal invocation in progress has rec_dep below the
   size of the pool (render starts with 0, every nested call adds one), and
   an invocation is nested in another only when the caller's rec_dep + 1 is
   below the size of the pool; whatever the portal graph. *)
C6_DepthWithinPool ==
    \A i \in 1..Len(stack) :
        /\ stack[i].rec_dep = i - 1
        /\ stack[i].rec_dep < Len(portal_views)
        /\ i > 1 => stack[i - 1].rec_dep + 1 < Len(portal_views)

\* level_loop, whose two portals link to each other: the whole pool in use
C6_Witness ==
    /\ level_name = "level_loop"
    /\ Len(stack) = Len(portal_views)
    /\ Top.rec_dep + 1 = Len(portal_views)
    /\ \A i \in 1..Len(stack) : stack[i].world = 0

(* C7: a frame that render has started comes to its end, whatever the
   visibility tests answer, and at its end no render_in_portal invocation
   is left in progress. *)
C7_RenderTerminates ==
    /\ [](pc = "idle" => stack = <<>>)
    /\ (pc = "render") ~> (pc = "idle" /\ stack = <<>>)

\* level_loop's frame is over; it went through render_in_portal
C7_Witness ==
    /\ level_name = "level_loop"
    /\ pc = "idle"
    /\ stack = <<>>
    /\ returned /= <<>>
    /\ returned[1].recursed

\* the two passes every invocation records into portal_views[rec_dep]
PassesOf(f) ==
    << [pass |-> "aperture", view |-> f.rec_dep,
        portal |-> <<f.world, f.idx>>],
       [pass |-> "scene", view |-> f.rec_dep, world |-> f.world] >>

(* C8: an invocation of render_in_portal at the last pool index has
   recorded the aperture pre-pass and the scene pass of its world into
   portal_views[rec_dep]; its next step is its return, and it has started
   no sub-render and no composite. *)
C8_LastIndexDrawsThenReturns ==
    [][(stack /= <<>> /\ Top.rec_dep + 1 = Len(portal_views))
         => /\ Top.passes = PassesOf(Top)
            /\ ~Top.recursed
            /\ ~Top.composited
            /\ returned' = <<Top>>
    /\ fresh' = fresh \ {CompositeSource(Top.rec_dep)}
            /\ Len(stack') = Len(stack) - 1]_vars

\* an invocation at the last pool index has returned
C8_Witness ==
    /\ returned /= <<>>
    /\ returned[1].rec_dep + 1 = Len(portal_views)
    /\ returned[1].passes = PassesOf(returned[1])
    /\ Len(stack) = returned[1].rec_dep

----------------------------------------------------------------------------
(* Properties of the camera transforms and of will_see_face. *)

(* C9: for every portal A of the constructed levels and every pose,
   projecting the pose with from_camera_portal_for_view on A and
   reconstructing it with change_camera_for_portal on A's link B, then
   projecting the result on B and reconstructing it on A, gives the eye
   and the look direction the round trip started from. *)
C9_ViewRoundTrip ==
    ret /= <<>> =>
        /\ ret[1].back.eye = ret[1].camera.eye
        /\ ret[1].back.target = ret[1].camera.target

\* a round trip through a pair that rescales, from beside the aperture
C9_Witness ==
    /\ ret /= <<>>
    /\ LET A == PortalAt(levels, ret[1].portal[1], ret[1].portal[2])
           right == Dot(PortalRight(A.this),
                        VSub(ret[1].camera.eye, A.this.pos))
       IN  /\ A.scale /= One
           /\ RLt(A.this.width, RAbs(right))
           /\ ret[1].there.eye /= ret[1].camera.eye
    /\ ret[1].back = ret[1].camera

\* z / w of a corner is a number in [0, 1]
DepthInRange(view, pos) ==
    LET c == MatVec(view, <<pos[1], pos[2], pos[3], One>>)
    IN  /\ c[4][1] /= 0
        /\ RLe(Zero, RDiv(c[3], c[4]))
        /\ RLe(RDiv(c[3], c[4]), One)

\* the matrix with other x and y rows
OtherXY(view) ==
    <<<<I(7), I(-3), One, I(4)>>, <<Zero, Zero, Zero, Zero>>, view[3],
      view[4]>>

(* C10: will_see_face is true exactly when one of the quad's four corners,
   multiplied by the matrix and divided by w, has its depth z in [0, 1];
   it answers the same whatever x and y the matrix projects the corners
   to. *)
C10_FaceSeenIffDepthInRange ==
    ret /= <<>> =>
        /\ ret[1].seen = (\E k \in 1..4 :
                            DepthInRange(args[1].view,
                                         args[1].plane.vertex[k]))
        /\ ret[1].seen = will_see_face(OtherXY(args[1].view), args[1].plane)

\* a face seen with all its corners projected right of the screen
C10_Witness ==
    /\ ret /= <<>>
    /\ ret[1].seen
    /\ \A k \in 1..4 :
          LET c == Project(args[1].view, args[1].plane.vertex[k])
          IN  c[1][2] /= 0 /\ RLt(One, c[1])

\* C11: a constructor whose resource manager lacks a texture one of its worlds
\* asks for ends with the error: no MagicLevel value comes to exist (pc never
\* reaches "building" or "idle"), the worlds built before the miss all found
\* their textures, and after the error nothing of the level is left.
C11_MissingTextureFailsConstruction ==
    LET required == UNION {needs[k] : k \in DOMAIN needs}
    IN  /\ ~(required \subseteq textures) => pc \in {"loading", "failed"}
        /\ pc = "loading" =>
               \A k \in 1..Len(levels) : needs[k] \subseteq textures
        /\ pc = "failed" =>
               /\ ~(required \subseteq textures)
               /\ levels = <<>>
               /\ collider_set = <<>>
               /\ portals_map = <<>>
               /\ portal_views = <<>>

\* a constructor failed on a later world after it had built its first one
C11_Witness ==
    /\ pc = "failed"
    /\ level_name = "level_rooms"
    /\ needs[1] \subseteq textures
    /\ textures = LoadedTextures

\* C12: while a frame is being rendered (from the first pass render records to
\* its end) every view of the pool has the width and height of the current
\* surface configuration, and the pool has the length it was created with.
C12_PoolMatchesSurface ==
    pc = "render" =>
        /\ \A k \in DOMAIN portal_views :
              /\ portal_views[k].width = surface_cfg.width
              /\ portal_views[k].height = surface_cfg.height
        /\ Len(portal_views) = PoolOf(level_name)

\* a frame after a resize that changed the height only: a sub-render draws
\* into a view of the new size
C12_Witness ==
    /\ pc = "render"
    /\ stack /= <<>>
    /\ surface_cfg.width = SurfaceSize.width
    /\ surface_cfg.height /= SurfaceSize.height
    /\ portal_views[Top.rec_dep + 1].height = surface_cfg.height

\* C13: the world up axis is +Z; calc_target(0, 0) is +X; for every yaw and
\* pitch the result is (cos yaw, sin yaw, 0) scaled by cos pitch plus +Z scaled
\* by sin pitch, which is a unit vector whose height is sin pitch.
C13_TargetIsYawThenPitch ==
    /\ UP = <<I(0), I(0), I(1)>>
    /\ ret /= <<>> =>
         LET y == sin_cos(args[1].yaw)
             p == sin_cos(args[1].pitch)
             t == ret[1].target
         IN  /\ t = <<RMul(y.cos, p.cos), RMul(y.sin, p.cos), p.sin>>
             /\ Dot(t, t) = One
             /\ (args[1].yaw = Zero /\ args[1].pitch = Zero)
                    => t = <<I(1), I(0), I(0)>>

\* the target for a yaw and a pitch that are neither 0 nor a quarter turn
C13_Witness ==
    /\ ret /= <<>>
    /\ args[1].yaw = Rat(1, 2)
    /\ args[1].pitch = Rat(1, 3)
    /\ ret[1].target = <<Rat(12, 25), Rat(16, 25), Rat(3, 5)>>

C15_CrossesOnlyInOwnWorld ==
    level_name \in {"new", "level0"} =>
        \A k \in 1..Len(tick_log) :
            tick_log[k].portal[1] = tick_log[k].from_world

\* C16: after a crossing through P into its link L (L.up = +Z, L.out_normal
\* horizontal) the camera eye and the body are at the same position, whose z is
\* L.pos.z, whose distance from L's plane along L.out_normal is 0.02 and whose
\* lateral offset from L.pos is minus the lateral offset of the pose from P.pos
\* times P.scale: it is L.pos + 0.02 * L.out_normal - right(L) * lateral *
\* P.scale, whatever the pose's distance from P's plane and its height.
C16_CrossingLandsOnLinkPlane ==
    ret /= <<>> =>
        LET P == PortalAt(levels, ret[1].portal[1], ret[1].portal[2])
            L == PortalAt(levels, P.connecting[1], P.connecting[2]).this
            d == VSub(ret[1].body, L.pos)
            lateral == Dot(PortalRight(P.this),
                           VSub(ret[1].camera.eye, P.this.pos))
        IN  /\ L.up = VZ
            /\ L.out_normal[3] = Zero
            /\ ret[1].eye = ret[1].body
            /\ ret[1].body[3] = L.pos[3]
            /\ Dot(L.out_normal, d) = CrossEpsilon
            /\ Dot(PortalRight(L), d) = RNeg(RMul(lateral, P.scale))
            /\ ret[1].body =
                  VAdd(VAdd(L.pos, VScale(L.out_normal, CrossEpsilon)),
                       VScale(PortalRight(L), RNeg(RMul(lateral, P.scale))))

\* a crossing through a portal of scale 5 from a pose that is off the portal's
\* plane, above its centre and to its side
C16_Witness ==
    /\ ret /= <<>>
    /\ "body" \in DOMAIN ret[1]
    /\ LET P == PortalAt(levels, ret[1].portal[1], ret[1].portal[2])
           off == VSub(ret[1].camera.eye, P.this.pos)
       IN  /\ P.scale = I(5)
           /\ Dot(P.this.out_normal, off) /= Zero
           /\ Dot(P.this.up, off) /= Zero
           /\ Dot(PortalRight(P.this), off) /= Zero

\* C17: an update all of whose drained events are stop events applies no
\* crossing: me_world, the half-extents of the body's bounding collider and
\* the camera's look direction are what they were before it.
C17_StopEventsCrossNothing ==
    [][(/\ tick' = tick + 1
        /\ \A n \in 1..Len(drained') : ~drained'[n].started)
       => /\ tick_log' = <<>>
          /\ me_world' = me_world
          /\ collider_set'[body_bounding].half
               = collider_set[body_bounding].half
          /\ camera'.target = camera.target]_vars

\* an update drained stop events only, after an earlier crossing
C17_Witness ==
    /\ drained /= <<>>
    /\ \A n \in 1..Len(drained) : ~drained[n].started
    /\ tick_log = <<>>
    /\ last_cross /= <<>>

\* the (body collider, sensor) pair an event is about
PairOf(e) ==
    IF e.collider1 \in {body_bounding, collider_handle}
      THEN <<e.collider1, e.collider2>>
      ELSE <<e.collider2, e.collider1>>

\* C18: the event queue is empty whenever update is not running; every event
\* an update drains was produced by its own physics step (a start event for a
\* contact that began in this step, a stop event for one that ended in it) and
\* every crossing is applied for one of them; and from the first render pass
\* of a frame to its last nothing changes the camera pose, me_world or the
\* crossings of the tick.
C18_EventsConsumedInTheirTick ==
    /\ [](col_events = <<>>)
    /\ [][tick' = tick + 1 =>
            /\ \A n \in 1..Len(drained') :
                  IF drained'[n].started
                    THEN PairOf(drained'[n]) \in touching' \ touching
                    ELSE PairOf(drained'[n]) \in touching \ touching'
            /\ \A k \in 1..Len(tick_log') :
                  \E n \in 1..Len(drained') :
                     drained'[n] = tick_log'[k].event]_vars
    /\ [][(pc = "render" \/ pc' = "render") =>
            /\ camera' = camera
            /\ translation' = translation
            /\ me_world' = me_world
            /\ tick_log' = tick_log
            /\ tick' = tick]_vars

\* a sub-render of the frame that follows a tick with a crossing
C18_Witness ==
    /\ pc = "render"
    /\ stack /= <<>>
    /\ tick_log /= <<>>
    /\ Len(drained) >= 2
    /\ col_events = <<>>
    /\ camera.eye = tick_log[Len(tick_log)].after

\* the portal the invocation stack[j] was started for: the one its caller's
\* loop stands at
Via(j) ==
    PortalOrder(levels)[IF j = 1 THEN cursor ELSE stack[j - 1].cursor]

\* the camera of the call that started the invocation stack[j]
EnclosingCamera(j) == IF j = 1 THEN camera ELSE stack[j - 1].camera

\* C19: an invocation render_in_portal((w, i), ..) starts no sub-render for
\* the portal (w, i): the portal a nested invocation was started for is not
\* the portal its caller was invoked with, so a view that went through a
\* portal p does not go straight back through the link of p.
C19_NoSubRenderForEntryPortal ==
    \A j \in 2..Len(stack) :
        /\ Via(j) /= <<stack[j - 1].world, stack[j - 1].idx>>
        /\ Via(j) /= Connecting(levels, Via(j - 1))
        /\ <<stack[j].world, stack[j].idx>> /= Via(j - 1)

\* a nested invocation whose caller's loop has passed the caller's own portal
C19_Witness ==
    \E j \in 2..Len(stack) :
       \E k \in 1..(stack[j - 1].cursor - 1) :
          PortalOrder(levels)[k] = <<stack[j - 1].world, stack[j - 1].idx>>

\* C20: no sub-render, from render or from render_in_portal, is started for a
\* portal whose z differs by more than 5 from the z of the eye of the
\* enclosing call's camera, whatever will_see_face answers.
C20_NoSubRenderBeyondZCull ==
    \A j \in 1..Len(stack) :
        LET this == PortalAt(levels, Via(j)[1], Via(j)[2]).this
            dz == RSub(this.pos[3], EnclosingCamera(j).eye[3])
        IN  RLe(RAbs(dz), I(5))

\* a nested invocation whose caller's loop has passed a portal more than 5
\* above or below the caller's camera
C20_Witness ==
    \E j \in 2..Len(stack) :
       \E k \in 1..(stack[j - 1].cursor - 1) :
          LET id == PortalOrder(levels)[k]
              this == PortalAt(levels, id[1], id[2]).this
          IN  RLt(I(5), RAbs(RSub(this.pos[3], stack[j - 1].camera.eye[3])))

----------------------------------------------------------------------------
(* C21: the invocation of render_in_portal in progress at depth d draws only
   into pool entries of index d or more; a sub-render clears a pool entry
   only when that entry is not waiting to be composited and is not the
   target of an invocation still in progress; and the step in which a
   sub-render returns composites its entry into its caller's target, so that
   the entries rendered and not yet composited are exactly those of the
   invocations in progress. *)
C21_PoolEntriesNotClobbered ==
    /\ [](\A j \in 1..Len(stack) :
             /\ stack[j].rec_dep = j - 1
             /\ \A k \in DOMAIN stack[j].passes :
                    stack[j].passes[k].view >= stack[j].rec_dep)
    /\ [](pc = "render" =>
             fresh = {stack[i].rec_dep : i \in 1..Len(stack)})
    /\ [][/\ Len(stack') = Len(stack) + 1 =>
               LET f == stack'[Len(stack')]
               IN  /\ Cleared(f) \cap fresh = {}
                   /\ \A j \in 1..Len(stack) :
                          \A k \in DOMAIN f.passes :
                             f.passes[k].view > stack[j].rec_dep
           /\ Len(stack') = Len(stack) - 1 =>
               /\ fresh' = fresh \ {Top.rec_dep}
               /\ returned' = <<Top>>
               /\ stack' /= <<>> => stack'[Len(stack')].composited]_vars

\* a second sub-render into entry 0 is in progress, with a sub-render of its
\* own into entry 1, after the first one was composited onto the screen
C21_Witness ==
    /\ Len(stack) = 2
    /\ returned /= <<>>
    /\ returned[1].rec_dep = 0
    /\ fresh = {0, 1}

----------------------------------------------------------------------------
(* C22: for a camera whose offset from a portal of width w and scale s has
   the lateral component r, the forward component f and the up component u,
   from_camera_portal_for_view returns right = r * s when |r| < w and
   right = sign(r) * (w * s + |r| - w) when |r| >= w, which is r * s at
   |r| = w; a camera further to the right gets a greater right; forward is
   f and up is u * s. *)
C22_LateralScaledUpToWidth ==
    ret /= <<>> =>
        LET P == PortalAt(levels, ret[1].portal[1], ret[1].portal[2])
            w == P.this.width
            s == P.scale
            r == RMul(Rat(args[1].right, 2), w)
            coord == ret[1].coord
        IN  /\ RLt(RAbs(r), w) => coord.right = RMul(r, s)
            /\ RLe(w, RAbs(r)) =>
                   coord.right =
                      RMul(IF RLt(r, Zero) THEN I(-1) ELSE I(1),
                           RSub(RAdd(RMul(w, s), RAbs(r)), w))
            /\ RAbs(r) = w => coord.right = RMul(r, s)
            /\ \A k \in -4..4 :
                   k > args[1].right =>
                      RLt(coord.right,
                          from_camera_portal_for_view(
                              ViewPose(P.this,
                                       [args[1] EXCEPT !.right = k]),
                              P).right)
            /\ coord.forward = args[1].forward
            /\ coord.up = RMul(args[1].up, s)

\* the camera is on the edge of the width of a portal that rescales
C22_Witness ==
    /\ ret /= <<>>
    /\ args[1].right = -2
    /\ args[1].up /= Zero
    /\ PortalAt(levels, ret[1].portal[1], ret[1].portal[2]).scale /= One
    /\ ret[1].coord.right /= Zero

----------------------------------------------------------------------------
\* how many times `method` was called on the state with this id
Calls(tr, id, method) ==
    Cardinality({k \in DOMAIN tr : tr[k] = [state |-> id, method |-> method]})

(* C23: process_tran applied to a stack of n >= 1 states, when it runs to
   its end: Push starts the new state and puts it on top; Pop stops the top
   state and removes it; Switch stops the top state, replaces it and starts
   the replacement; Exit stops the states from top to bottom, empties the
   stack and clears `running`; Vec has the effect of its elements applied
   one after another from the first; None changes nothing.  A state that
   left the stack was stopped once, a state that came onto it was started
   once, and no other state was started or stopped. *)
C23_TransitionsApplied ==
    [][~Panicked(trace') =>
        LET tran == args'[1]
            before == windows["root"].states
            after == windows'["root"].states
            n == Len(before)
            w0 == [states |-> before, running |-> windows["root"].running,
                   trace |-> <<>>]
            w1 == [states |-> after, running |-> windows'["root"].running,
                   trace |-> trace']
            Ids(s) == {s[k].id : k \in DOMAIN s}
        IN  /\ n >= 1
            /\ tran.tag = "Push" =>
                   /\ after = Append(before, tran.state)
                   /\ trace' = <<Called(tran.state, "start")>>
                   /\ w1.running = w0.running
            /\ tran.tag = "Pop" =>
                   /\ after = SubSeq(before, 1, n - 1)
                   /\ trace' = <<Called(before[n], "stop")>>
                   /\ w1.running = w0.running
            /\ tran.tag = "Switch" =>
                   /\ after = SubSeq(before, 1, n - 1) \o <<tran.state>>
                   /\ trace' = <<Called(before[n], "stop"),
                                 Called(tran.state, "start")>>
                   /\ w1.running = w0.running
            /\ tran.tag = "Exit" =>
                   /\ after = <<>>
                   /\ trace' = [k \in 1..n |-> Called(before[n + 1 - k], "stop")]
                   /\ ~w1.running
            /\ tran.tag = "None" => w1 = w0
            /\ tran.tag = "Vec" =>
                   w1 = IF Len(tran.ts) = 0 THEN w0
                        ELSE IF Len(tran.ts) = 1
                          THEN process_tran(w0, tran.ts[1])
                          ELSE process_tran(process_tran(w0, tran.ts[1]),
                                            tran.ts[2])
            /\ \A id \in 1..MaxCreated :
                   LET started == Calls(trace', id, "start")
                       stopped == Calls(trace', id, "stop")
                       came == id \notin Ids(before)
                                  /\ (id \in Ids(after) \/ stopped > 0)
                       left == id \notin Ids(after)
                                  /\ (id \in Ids(before) \/ started > 0)
                   IN  /\ started = IF came THEN 1 ELSE 0
                       /\ stopped = IF left THEN 1 ELSE 0]_vars

\* a batch of a push and an exit was applied to two states: three states
\* were stopped, the new one after it was started
C23_Witness ==
    /\ args /= <<>>
    /\ args[1].tag = "Vec"
    /\ Len(args[1].ts) = 2
    /\ args[1].ts[1].tag = "Push"
    /\ args[1].ts[2].tag = "Exit"
    /\ Len(trace) = 4
    /\ ~windows["root"].running
    /\ windows["root"].states = <<>>

----------------------------------------------------------------------------
\* C24: process_tran applied to a stack that is not empty does not panic,
\* whatever the transition.
C24_ProcessTranNeverPanics == ~Panicked(trace)

----------------------------------------------------------------------------
(* C25: when the handler of MainEventsCleared comes to the root window and
   finds it not running (its stack is empty or `running` is false), the
   control flow is Exit when the handler returns. *)
C25_ExitWhenRootNotRunning ==
    [][("root" \in DOMAIN windows
          /\ args' = <<[event |-> "MainEventsCleared", window |-> "all"]>>
          /\ (windows["root"].got_event
                 \/ windows["root"].loop_state /= "Wait")
          /\ (windows["root"].states = <<>> \/ ~windows["root"].running))
        => control_flow' = "Exit"]_vars

----------------------------------------------------------------------------
(* C26: when the handler of an event calls render on an OverlayView, the
   Test3DState the view points to is on the stack of the root window, and
   the handler calls no method of that Test3DState. *)
C26_OverlayReadsLiveState ==
    [][\A w \in DOMAIN windows :
         \A k \in DOMAIN windows[w].states :
            LET o == windows[w].states[k]
            IN  (o.kind = "OverlayView"
                   /\ \E n \in DOMAIN trace' :
                         trace'[n] = Called(o, "render"))
                => /\ "root" \in DOMAIN windows
                   /\ \E j \in DOMAIN windows["root"].states :
                         /\ windows["root"].states[j].id = o.state
                         /\ windows["root"].states[j].kind = "Test3DState"
                   /\ \A n \in DOMAIN trace' : trace'[n].state /= o.state]_vars

\* the overlay window was redrawn: its OverlayView rendered
C26_Witness ==
    /\ args = <<[event |-> "RedrawRequested", window |-> "overlay"]>>
    /\ "overlay" \in DOMAIN windows
    /\ trace /= <<>>
    /\ trace[Len(trace)] =
          Called(windows["overlay"].states[1], "render")
    /\ windows["overlay"].states[1].kind = "OverlayView"
    /\ windows["overlay"].states[1].state = 2

----------------------------------------------------------------------------
(* C27: while a level is built and after any number of updates, me_world is
   the index of a world; the portal stored at levels[w].portals[i] has
   this.world = w; after an update that applied crossings me_world is the
   world component of the `connecting` of the last portal crossed; every
   key of portals_map is the handle of a sensor and addresses a portal that
   exists, and two keys address two portals. *)
C27_LevelWellFormed ==
    /\ me_world \in 0..(Len(levels) - 1)
    /\ \A w \in 1..Len(levels) :
          \A i \in 1..Len(levels[w].portals) :
             levels[w].portals[i].this.world = w - 1
    /\ tick_log /= <<>> =>
          me_world = PortalAt(levels, tick_log[Len(tick_log)].portal[1],
                              tick_log[Len(tick_log)].portal[2]).connecting[1]
    /\ \A h \in DOMAIN portals_map :
          /\ h \in DOMAIN collider_set
          /\ collider_set[h].sensor
          /\ PortalExists(levels, portals_map[h][1], portals_map[h][2])
          /\ \A g \in DOMAIN portals_map :
                 g /= h => portals_map[g] /= portals_map[h]

\* the body of level0 is in its third world or beyond after two updates
C27_Witness ==
    /\ level_name = "level0"
    /\ Len(tick_log) >= 1
    /\ me_world >= 2
    /\ tick >= 2
    /\ Cardinality(DOMAIN portals_map) >= 8


----------------------------------------------------------------------------
(* Claims on the network peers and the server *)

\* the run_loop task of peer p has clones p of its own while it runs; the
\* map holds one for each address that names p
InMap(p) == \E a \in DOMAIN peers : peers[a] = p

(* C28: Peer::run_loop leaves its loop and clears `listening` as soon as
   more than 5 errors (failed send, failed flush, failed receive) occurred
   with no successful send or receive in between: errs, reset by each such
   success, is never beyond 5 in a peer whose loop still runs. *)
C28_LoopLeftBeyondFiveErrors ==
    \A p \in DOMAIN conns :
        conns[p].errs > ErrLimit =>
            conns[p].task = "done" /\ ~conns[p].listening

(* C29: dropping any clone of a Peer clears the flag shared by the clones,
   other clones alive or not; once the flag is cleared the loop takes no
   further turn, it can only return; and after run_loop returned the flag is cleared. *)
C29_DropClearsSharedFlag ==
    /\ [][\A p \in DOMAIN conns :
             conns'[p].clones < conns[p].clones => ~conns'[p].listening]_vars
    /\ [][\A p \in DOMAIN conns :
             ~conns[p].listening =>
                 /\ ~conns'[p].listening
                 /\ conns'[p].errs = conns[p].errs
                 /\ conns'[p].task \in {conns[p].task, "done"}]_vars
    /\ [](\A p \in DOMAIN conns :
             conns[p].task = "done" => ~conns[p].listening)

\* a clone was dropped while the loop runs and another clone is held: the
\* flag is cleared under both
C29_Witness ==
    \E p \in DOMAIN conns :
        /\ conns[p].task = "running"
        /\ ~conns[p].listening
        /\ conns[p].clones >= 2

(* C30: after each accepted connection and each timeout of
   Server::run_loop the map holds only peers whose flag is set, and a peer
   replaced by a connection from its address has its flag cleared. *)
C30_MapHoldsListeningPeers ==
    /\ [][(peers' /= peers \/ Len(conns') > Len(conns)) =>
             \A a \in DOMAIN peers' : conns'[peers'[a]].listening]_vars
    /\ [][Len(conns') > Len(conns) =>
             LET addr == conns'[Len(conns')].addr
             IN  /\ addr \in DOMAIN peers'
                 /\ peers'[addr] = Len(conns')
                 /\ addr \in DOMAIN peers =>
                       /\ peers[addr] /= peers'[addr]
                       /\ ~conns'[peers[addr]].listening
                       /\ \A a \in DOMAIN peers' :
                            peers'[a] /= peers[addr]]_vars

\* a second connection from the address of a peer that was still listening
C30_Witness ==
    /\ Len(conns) = 2
    /\ conns[1].addr = conns[2].addr
    /\ DOMAIN peers = {conns[2].addr}
    /\ peers[conns[2].addr] = 2
    /\ conns[1].task = "running"
    /\ ~conns[1].listening
    /\ conns[2].listening

====
